---------------------------- MODULE Spec2Model ----------------------------
(***************************************************************************)
(* PathFinder (src/app.py): a Flask application that lazily builds a       *)
(* weighted undirected graph of geographic waypoints and a k-d tree over   *)
(* its nodes, snaps the two points of a query onto graph nodes, runs       *)
(* Dijkstra between them and encodes the path as KML.                      *)
(*                                                                         *)
(* Values.  Every Python value carries a tag t: "num", "str", "list",      *)
(* "dict", "None".  A tuple is a sequence of values.  A dict is the        *)
(* sequence of its items in insertion order, its keys distinct.  A bool    *)
(* is the number 1 or 0: the program only compares and converts it.        *)
(*                                                                         *)
(* Numbers.  A finite number is the decimal n * 10^-k, in lowest form      *)
(* (Decimal); Inf and NaN are the other floats.  Decimals of at most 15    *)
(* significant digits name distinct floats in the same order, so equality  *)
(* and comparison of floats are those of the decimals.  A nan carries the  *)
(* identity of its float object: it equals no number, but a container      *)
(* finds an object it holds by identity.  Arithmetic is defined where it   *)
(* is exact in binary floating point: the k-d tree on coordinates that are *)
(* multiples of 1/16, and sums of distances in metres by IEEE              *)
(* round-to-nearest addition.  haversine is a table of its float results   *)
(* over the points of the model; outside these domains the operators have  *)
(* no value.                                                               *)
(*                                                                         *)
(* Text.  A Python str is a sequence of characters.  A character is a      *)
(* string of length one or, beyond U+00FF, its name: "U+0661".             *)
(*                                                                         *)
(* Text of numbers.  '%f' % x is computed from the decimal of x; where the *)
(* sixth place hangs on a tie of the decimal, it is decided by the binary  *)
(* float nearest to the decimal, as the code decides it.  -0.0 is NegZero:  *)
(* it equals 0 and 0.0, hashes like them and is written with its sign.     *)
(*                                                                         *)
(* Exceptions.  A call that can raise returns [ok |-> TRUE, val |-> v] or  *)
(* [ok |-> FALSE, exc |-> "<exception class>"].                            *)
(***************************************************************************)
EXTENDS Integers, Sequences, FiniteSets, TLC

VARIABLES
    graph_data,     \* the content of GRAPH_FILE, as json.load returns it
    initialized,    \* the module-level flag (line 17)
    config,         \* app.config: the "graph" and "kd_tree" entries
    pc,             \* per worker thread: where it is in serving its request
    req,            \* per worker thread: the request it is serving
    resp,           \* per worker thread: the response of its last request
    calls,          \* per worker thread: the core calls its handler made, in order
    served,         \* number of requests received so far
    built,          \* number of completed create_graph / create_kd_tree calls
    probe           \* the library-level call under study (pure-function specifications)

vars == <<graph_data, initialized, config, pc, req, resp, calls, served, built, probe>>

None == [t |-> "None"]

Str(s) == [t |-> "str", v |-> s]

List(l) == [t |-> "list", v |-> l]

Item(key, value) == [key |-> key, value |-> value]

Dict(items) == [t |-> "dict", v |-> items]

\* the number n * 10^-k, in lowest form: 0.50 and 0.5 are one float
RECURSIVE Decimal(_, _)
Decimal(n, k) ==
    IF k < 0 THEN Decimal(n * 10^(0 - k), 0)
    ELSE IF n = 0 /\ k > 0 THEN Decimal(0, 0)
    ELSE IF k > 0 /\ n % 10 = 0 THEN Decimal(n \div 10, k - 1)
    ELSE [t |-> "num", c |-> "fin", n |-> n, k |-> k]

Whole(n) == Decimal(n, 0)

\* the float -0.0: zero to every comparison, with a sign that '%f' writes
NegZero == [t |-> "num", c |-> "fin", n |-> 0, k |-> 0, neg |-> TRUE]

Inf(neg) == [t |-> "num", c |-> "inf", n |-> IF neg THEN -1 ELSE 1, k |-> 0]

\* the nan that is the float object id
NaN(id) == [t |-> "num", c |-> "nan", n |-> 0, k |-> 0, id |-> id]

\* json.load answers every NaN of a document with one object, a constant
\* of the decoder
JsonNaN == NaN(<<0, 0>>)

\* a key that a dictionary (app.config) does not hold
Absent == [t |-> "absent"]

Ok(v) == [ok |-> TRUE, val |-> v]

Raise(e) == [ok |-> FALSE, exc |-> e]

\* KeyError(k), raised by d[k] when d has no key k
RaiseKey(k) == [ok |-> FALSE, exc |-> "KeyError", key |-> k]

\* the first of the results, in order, that raised
FirstRaised(rs) ==
    rs[CHOOSE i \in 1..Len(rs) : ~rs[i].ok /\ \A j \in 1..(i - 1) : rs[j].ok]

Range(s) == {s[i] : i \in 1..Len(s)}

\* what a dict or == compares the tuple n by: -0.0 is equal to 0 and has
\* its hash, every other element compares as itself
as_key(n) ==
    [i \in 1..Len(n) |->
        IF n[i].t = "num" /\ n[i].c = "fin" /\ n[i].n = 0 THEN Whole(0) ELSE n[i]]

\* v where the model's arithmetic is exact (inside), no value elsewhere
Within(v, inside) == CHOOSE x \in {v} : inside

\* the least integer not below n / 10^d; n / 10^d lies within (-1, 1) from
\* d = 10 on
CeilDiv(n, d) ==
    IF d >= 10 THEN (IF n > 0 THEN 1 ELSE 0) ELSE 0 - ((0 - n) \div 10^d)

\* the greatest integer not above n / 10^d
FloorDiv(n, d) ==
    IF d >= 10 THEN (IF n >= 0 THEN 0 ELSE -1) ELSE n \div 10^d

\* x <= y on numbers: false when either is nan
Le(x, y) ==
    IF x.c = "nan" \/ y.c = "nan" THEN FALSE
    ELSE IF x.c = "inf" THEN x.n < 0 \/ (y.c = "inf" /\ y.n > 0)
    ELSE IF y.c = "inf" THEN y.n > 0
    ELSE IF x.k >= y.k THEN CeilDiv(x.n, x.k - y.k) <= y.n
    ELSE x.n <= FloorDiv(y.n, y.k - x.k)

\* x < y on numbers: false when either is nan
Lt(x, y) == x.c # "nan" /\ y.c # "nan" /\ ~Le(y, x)

\* x[key]: only a dict is subscripted by a str
getitem(x, key) ==
    IF x.t # "dict" THEN Raise("TypeError")
    ELSE IF \A i \in 1..Len(x.v) : x.v[i].key # key THEN RaiseKey(key)
    ELSE Ok(x.v[CHOOSE i \in 1..Len(x.v) : x.v[i].key = key].value)

\* iter(x): the elements of a list, the characters of a str, the keys of a
\* dict; a number and None are not iterable
iter(x) ==
    IF x.t = "list" THEN Ok(x.v)
    ELSE IF x.t = "str" THEN Ok([i \in 1..Len(x.v) |-> Str(<<x.v[i]>>)])
    ELSE IF x.t = "dict" THEN Ok([i \in 1..Len(x.v) |-> Str(x.v[i].key)])
    ELSE Raise("TypeError")

(***************************************************************************)
(* Python text primitives used by create_graph, line 54, and float.        *)
(***************************************************************************)

\* the characters float reads as the digits 0 to 9: the decimal digits of
\* Unicode (category Nd), listed by value
DecimalDigits ==
    <<
      { "0", "U+0660", "U+06F0", "U+07C0", "U+0966", "U+09E6", "U+0A66",
        "U+0AE6", "U+0B66", "U+0BE6", "U+0C66", "U+0CE6", "U+0D66", "U+0DE6",
        "U+0E50", "U+0ED0", "U+0F20", "U+1040", "U+1090", "U+17E0", "U+1810",
        "U+1946", "U+19D0", "U+1A80", "U+1A90", "U+1B50", "U+1BB0", "U+1C40",
        "U+1C50", "U+A620", "U+A8D0", "U+A900", "U+A9D0", "U+A9F0", "U+AA50",
        "U+ABF0", "U+FF10", "U+104A0", "U+10D30", "U+11066", "U+110F0",
        "U+11136", "U+111D0", "U+112F0", "U+11450", "U+114D0", "U+11650",
        "U+116C0", "U+11730", "U+118E0", "U+11950", "U+11C50", "U+11D50",
        "U+11DA0", "U+16A60", "U+16AC0", "U+16B50", "U+1D7CE", "U+1D7D8",
        "U+1D7E2", "U+1D7EC", "U+1D7F6", "U+1E140", "U+1E2F0", "U+1E950",
        "U+1FBF0" },
      { "1", "U+0661", "U+06F1", "U+07C1", "U+0967", "U+09E7", "U+0A67",
        "U+0AE7", "U+0B67", "U+0BE7", "U+0C67", "U+0CE7", "U+0D67", "U+0DE7",
        "U+0E51", "U+0ED1", "U+0F21", "U+1041", "U+1091", "U+17E1", "U+1811",
        "U+1947", "U+19D1", "U+1A81", "U+1A91", "U+1B51", "U+1BB1", "U+1C41",
        "U+1C51", "U+A621", "U+A8D1", "U+A901", "U+A9D1", "U+A9F1", "U+AA51",
        "U+ABF1", "U+FF11", "U+104A1", "U+10D31", "U+11067", "U+110F1",
        "U+11137", "U+111D1", "U+112F1", "U+11451", "U+114D1", "U+11651",
        "U+116C1", "U+11731", "U+118E1", "U+11951", "U+11C51", "U+11D51",
        "U+11DA1", "U+16A61", "U+16AC1", "U+16B51", "U+1D7CF", "U+1D7D9",
        "U+1D7E3", "U+1D7ED", "U+1D7F7", "U+1E141", "U+1E2F1", "U+1E951",
        "U+1FBF1" },
      { "2", "U+0662", "U+06F2", "U+07C2", "U+0968", "U+09E8", "U+0A68",
        "U+0AE8", "U+0B68", "U+0BE8", "U+0C68", "U+0CE8", "U+0D68", "U+0DE8",
        "U+0E52", "U+0ED2", "U+0F22", "U+1042", "U+1092", "U+17E2", "U+1812",
        "U+1948", "U+19D2", "U+1A82", "U+1A92", "U+1B52", "U+1BB2", "U+1C42",
        "U+1C52", "U+A622", "U+A8D2", "U+A902", "U+A9D2", "U+A9F2", "U+AA52",
        "U+ABF2", "U+FF12", "U+104A2", "U+10D32", "U+11068", "U+110F2",
        "U+11138", "U+111D2", "U+112F2", "U+11452", "U+114D2", "U+11652",
        "U+116C2", "U+11732", "U+118E2", "U+11952", "U+11C52", "U+11D52",
        "U+11DA2", "U+16A62", "U+16AC2", "U+16B52", "U+1D7D0", "U+1D7DA",
        "U+1D7E4", "U+1D7EE", "U+1D7F8", "U+1E142", "U+1E2F2", "U+1E952",
        "U+1FBF2" },
      { "3", "U+0663", "U+06F3", "U+07C3", "U+0969", "U+09E9", "U+0A69",
        "U+0AE9", "U+0B69", "U+0BE9", "U+0C69", "U+0CE9", "U+0D69", "U+0DE9",
        "U+0E53", "U+0ED3", "U+0F23", "U+1043", "U+1093", "U+17E3", "U+1813",
        "U+1949", "U+19D3", "U+1A83", "U+1A93", "U+1B53", "U+1BB3", "U+1C43",
        "U+1C53", "U+A623", "U+A8D3", "U+A903", "U+A9D3", "U+A9F3", "U+AA53",
        "U+ABF3", "U+FF13", "U+104A3", "U+10D33", "U+11069", "U+110F3",
        "U+11139", "U+111D3", "U+112F3", "U+11453", "U+114D3", "U+11653",
        "U+116C3", "U+11733", "U+118E3", "U+11953", "U+11C53", "U+11D53",
        "U+11DA3", "U+16A63", "U+16AC3", "U+16B53", "U+1D7D1", "U+1D7DB",
        "U+1D7E5", "U+1D7EF", "U+1D7F9", "U+1E143", "U+1E2F3", "U+1E953",
        "U+1FBF3" },
      { "4", "U+0664", "U+06F4", "U+07C4", "U+096A", "U+09EA", "U+0A6A",
        "U+0AEA", "U+0B6A", "U+0BEA", "U+0C6A", "U+0CEA", "U+0D6A", "U+0DEA",
        "U+0E54", "U+0ED4", "U+0F24", "U+1044", "U+1094", "U+17E4", "U+1814",
        "U+194A", "U+19D4", "U+1A84", "U+1A94", "U+1B54", "U+1BB4", "U+1C44",
        "U+1C54", "U+A624", "U+A8D4", "U+A904", "U+A9D4", "U+A9F4", "U+AA54",
        "U+ABF4", "U+FF14", "U+104A4", "U+10D34", "U+1106A", "U+110F4",
        "U+1113A", "U+111D4", "U+112F4", "U+11454", "U+114D4", "U+11654",
        "U+116C4", "U+11734", "U+118E4", "U+11954", "U+11C54", "U+11D54",
        "U+11DA4", "U+16A64", "U+16AC4", "U+16B54", "U+1D7D2", "U+1D7DC",
        "U+1D7E6", "U+1D7F0", "U+1D7FA", "U+1E144", "U+1E2F4", "U+1E954",
        "U+1FBF4" },
      { "5", "U+0665", "U+06F5", "U+07C5", "U+096B", "U+09EB", "U+0A6B",
        "U+0AEB", "U+0B6B", "U+0BEB", "U+0C6B", "U+0CEB", "U+0D6B", "U+0DEB",
        "U+0E55", "U+0ED5", "U+0F25", "U+1045", "U+1095", "U+17E5", "U+1815",
        "U+194B", "U+19D5", "U+1A85", "U+1A95", "U+1B55", "U+1BB5", "U+1C45",
        "U+1C55", "U+A625", "U+A8D5", "U+A905", "U+A9D5", "U+A9F5", "U+AA55",
        "U+ABF5", "U+FF15", "U+104A5", "U+10D35", "U+1106B", "U+110F5",
        "U+1113B", "U+111D5", "U+112F5", "U+11455", "U+114D5", "U+11655",
        "U+116C5", "U+11735", "U+118E5", "U+11955", "U+11C55", "U+11D55",
        "U+11DA5", "U+16A65", "U+16AC5", "U+16B55", "U+1D7D3", "U+1D7DD",
        "U+1D7E7", "U+1D7F1", "U+1D7FB", "U+1E145", "U+1E2F5", "U+1E955",
        "U+1FBF5" },
      { "6", "U+0666", "U+06F6", "U+07C6", "U+096C", "U+09EC", "U+0A6C",
        "U+0AEC", "U+0B6C", "U+0BEC", "U+0C6C", "U+0CEC", "U+0D6C", "U+0DEC",
        "U+0E56", "U+0ED6", "U+0F26", "U+1046", "U+1096", "U+17E6", "U+1816",
        "U+194C", "U+19D6", "U+1A86", "U+1A96", "U+1B56", "U+1BB6", "U+1C46",
        "U+1C56", "U+A626", "U+A8D6", "U+A906", "U+A9D6", "U+A9F6", "U+AA56",
        "U+ABF6", "U+FF16", "U+104A6", "U+10D36", "U+1106C", "U+110F6",
        "U+1113C", "U+111D6", "U+112F6", "U+11456", "U+114D6", "U+11656",
        "U+116C6", "U+11736", "U+118E6", "U+11956", "U+11C56", "U+11D56",
        "U+11DA6", "U+16A66", "U+16AC6", "U+16B56", "U+1D7D4", "U+1D7DE",
        "U+1D7E8", "U+1D7F2", "U+1D7FC", "U+1E146", "U+1E2F6", "U+1E956",
        "U+1FBF6" },
      { "7", "U+0667", "U+06F7", "U+07C7", "U+096D", "U+09ED", "U+0A6D",
        "U+0AED", "U+0B6D", "U+0BED", "U+0C6D", "U+0CED", "U+0D6D", "U+0DED",
        "U+0E57", "U+0ED7", "U+0F27", "U+1047", "U+1097", "U+17E7", "U+1817",
        "U+194D", "U+19D7", "U+1A87", "U+1A97", "U+1B57", "U+1BB7", "U+1C47",
        "U+1C57", "U+A627", "U+A8D7", "U+A907", "U+A9D7", "U+A9F7", "U+AA57",
        "U+ABF7", "U+FF17", "U+104A7", "U+10D37", "U+1106D", "U+110F7",
        "U+1113D", "U+111D7", "U+112F7", "U+11457", "U+114D7", "U+11657",
        "U+116C7", "U+11737", "U+118E7", "U+11957", "U+11C57", "U+11D57",
        "U+11DA7", "U+16A67", "U+16AC7", "U+16B57", "U+1D7D5", "U+1D7DF",
        "U+1D7E9", "U+1D7F3", "U+1D7FD", "U+1E147", "U+1E2F7", "U+1E957",
        "U+1FBF7" },
      { "8", "U+0668", "U+06F8", "U+07C8", "U+096E", "U+09EE", "U+0A6E",
        "U+0AEE", "U+0B6E", "U+0BEE", "U+0C6E", "U+0CEE", "U+0D6E", "U+0DEE",
        "U+0E58", "U+0ED8", "U+0F28", "U+1048", "U+1098", "U+17E8", "U+1818",
        "U+194E", "U+19D8", "U+1A88", "U+1A98", "U+1B58", "U+1BB8", "U+1C48",
        "U+1C58", "U+A628", "U+A8D8", "U+A908", "U+A9D8", "U+A9F8", "U+AA58",
        "U+ABF8", "U+FF18", "U+104A8", "U+10D38", "U+1106E", "U+110F8",
        "U+1113E", "U+111D8", "U+112F8", "U+11458", "U+114D8", "U+11658",
        "U+116C8", "U+11738", "U+118E8", "U+11958", "U+11C58", "U+11D58",
        "U+11DA8", "U+16A68", "U+16AC8", "U+16B58", "U+1D7D6", "U+1D7E0",
        "U+1D7EA", "U+1D7F4", "U+1D7FE", "U+1E148", "U+1E2F8", "U+1E958",
        "U+1FBF8" },
      { "9", "U+0669", "U+06F9", "U+07C9", "U+096F", "U+09EF", "U+0A6F",
        "U+0AEF", "U+0B6F", "U+0BEF", "U+0C6F", "U+0CEF", "U+0D6F", "U+0DEF",
        "U+0E59", "U+0ED9", "U+0F29", "U+1049", "U+1099", "U+17E9", "U+1819",
        "U+194F", "U+19D9", "U+1A89", "U+1A99", "U+1B59", "U+1BB9", "U+1C49",
        "U+1C59", "U+A629", "U+A8D9", "U+A909", "U+A9D9", "U+A9F9", "U+AA59",
        "U+ABF9", "U+FF19", "U+104A9", "U+10D39", "U+1106F", "U+110F9",
        "U+1113F", "U+111D9", "U+112F9", "U+11459", "U+114D9", "U+11659",
        "U+116C9", "U+11739", "U+118E9", "U+11959", "U+11C59", "U+11D59",
        "U+11DA9", "U+16A69", "U+16AC9", "U+16B59", "U+1D7D7", "U+1D7E1",
        "U+1D7EB", "U+1D7F5", "U+1D7FF", "U+1E149", "U+1E2F9", "U+1E959",
        "U+1FBF9" }
    >>

IsDigit(c) == \E d \in 1..10 : c \in DecimalDigits[d]

DigitVal(c) == (CHOOSE d \in 1..10 : c \in DecimalDigits[d]) - 1

\* str.strip(chars): drop leading and trailing characters that are in chars
RECURSIVE lstrip(_, _)
lstrip(s, chars) ==
    IF s # <<>> /\ Head(s) \in chars THEN lstrip(Tail(s), chars) ELSE s

RECURSIVE rstrip(_, _)
rstrip(s, chars) ==
    IF s # <<>> /\ s[Len(s)] \in chars
    THEN rstrip(SubSeq(s, 1, Len(s) - 1), chars)
    ELSE s

strip(s, chars) == rstrip(lstrip(s, chars), chars)

\* str.split(', '): cut at every occurrence of the separator, left to right;
\* cur is the piece being read
RECURSIVE split_from(_, _)
split_from(s, cur) ==
    IF s = <<>> THEN <<cur>>
    ELSE IF Len(s) >= 2 /\ s[1] = "," /\ s[2] = " "
         THEN <<cur>> \o split_from(SubSeq(s, 3, Len(s)), <<>>)
         ELSE split_from(Tail(s), Append(cur, Head(s)))

split(s) == split_from(s, <<>>)

\* str.lower() on the letters A to Z, all that float's literals hold
lower(s) ==
    LET Upper == << "A", "B", "C", "D", "E", "F", "G", "H", "I", "J", "K", "L", "M",
                    "N", "O", "P", "Q", "R", "S", "T", "U", "V", "W", "X", "Y", "Z" >>
        Lower == << "a", "b", "c", "d", "e", "f", "g", "h", "i", "j", "k", "l", "m",
                    "n", "o", "p", "q", "r", "s", "t", "u", "v", "w", "x", "y", "z" >>
    IN  [i \in 1..Len(s) |->
            IF \E j \in 1..26 : Upper[j] = s[i]
            THEN Lower[CHOOSE j \in 1..26 : Upper[j] = s[i]]
            ELSE s[i]]

\* the blanks float strips from both ends of its argument: space, tab, line
\* feed, vertical tab (U+000B), form feed, carriage return, U+0085, U+00A0
\* and the blanks beyond; the separators U+001C to U+001F are not among them
Whitespace ==
    { " ", "\t", "\n", "", "\f", "\r", "", " ",
      "U+1680", "U+2000", "U+2001", "U+2002", "U+2003", "U+2004", "U+2005",
      "U+2006", "U+2007", "U+2008", "U+2009", "U+200A", "U+2028", "U+2029",
      "U+202F", "U+205F", "U+3000" }

RECURSIVE digits_value(_, _)
digits_value(s, acc) ==
    IF s = <<>> THEN acc ELSE digits_value(Tail(s), 10 * acc + DigitVal(Head(s)))

AllDigits(s) == \A i \in 1..Len(s) : IsDigit(s[i])

\* the position of the first character of u that is in chars, or Len(u) + 1
FirstOf(u, chars) ==
    IF \E i \in 1..Len(u) : u[i] \in chars
    THEN CHOOSE i \in 1..Len(u) : u[i] \in chars /\ \A j \in 1..(i - 1) : u[j] \notin chars
    ELSE Len(u) + 1

\* the decimal d * 10^-k, signed: it overflows to inf from 10^309 on and
\* underflows to a zero below 10^-324; a float holds it as a normal number
\* down to 10^-300.  A zero keeps the sign of the literal.
float_value(neg, d, k) ==
    IF d = 0 \/ k >= 334 THEN (IF neg THEN NegZero ELSE Whole(0))
    ELSE IF k <= -309 THEN Inf(neg)
    ELSE Decimal(IF neg THEN 0 - d ELSE d, Within(k, k <= 300))

\* the exponent after "e": an optional sign and at least one digit
float_exponent(x) ==
    IF x # <<>> /\ Head(x) \in {"-", "+"}
    THEN IF Tail(x) # <<>> /\ AllDigits(Tail(x))
         THEN Ok(IF Head(x) = "-" THEN 0 - digits_value(Tail(x), 0)
                 ELSE digits_value(Tail(x), 0))
         ELSE Raise("ValueError")
    ELSE IF x # <<>> /\ AllDigits(x) THEN Ok(digits_value(x, 0))
    ELSE Raise("ValueError")

\* the integer part ip and the fraction fp of the mantissa: digits only, and
\* at least one of them; the value is that of the digits of ip and of fp
\* without its trailing zeros, scaled by the exponent e
float_parts(neg, ip, fp, e) ==
    IF /\ ip # <<>> \/ fp # <<>>
       /\ AllDigits(ip)
       /\ AllDigits(fp)
       /\ e.ok
    THEN Ok(float_value(neg, digits_value(ip \o rstrip(fp, {"0"}), 0),
                        Len(rstrip(fp, {"0"})) - e.val))
    ELSE Raise("ValueError")

\* the mantissa m, cut at its first ".", and the exponent
float_mantissa(neg, m, e) ==
    float_parts(neg, SubSeq(m, 1, FirstOf(m, {"."}) - 1),
                SubSeq(m, FirstOf(m, {"."}) + 1, Len(m)), e)

\* a decimal literal: a mantissa and, after the first "e" or "E", an exponent
float_decimal(neg, u) ==
    float_mantissa(neg, SubSeq(u, 1, FirstOf(u, {"e", "E"}) - 1),
                   IF FirstOf(u, {"e", "E"}) > Len(u) THEN Ok(0)
                   ELSE float_exponent(SubSeq(u, FirstOf(u, {"e", "E"}) + 1, Len(u))))

\* the text after the sign: inf, infinity, nan in any case, or a decimal
float_unsigned(neg, u) ==
    IF lower(u) \in {<<"i", "n", "f">>, <<"i", "n", "f", "i", "n", "i", "t", "y">>}
    THEN Ok(Inf(neg))
    ELSE IF lower(u) = <<"n", "a", "n">> THEN Ok(NaN(<<>>))
    ELSE float_decimal(neg, u)

float_signed(t) ==
    IF t # <<>> /\ Head(t) \in {"-", "+"}
    THEN float_unsigned(Head(t) = "-", Tail(t))
    ELSE float_unsigned(FALSE, t)

\* an underscore is allowed between two digits only, and is then dropped
float_underscores(t) ==
    IF \A i \in 1..Len(t) :
           t[i] = "_" => (i > 1 /\ i < Len(t) /\ IsDigit(t[i - 1]) /\ IsDigit(t[i + 1]))
    THEN float_signed(SelectSeq(t, LAMBDA ch : ch # "_"))
    ELSE Raise("ValueError")

\* float(text): blanks around the literal are dropped; the literal is a
\* sign and inf, infinity, nan or a decimal with optional fraction and
\* exponent; any other text raises ValueError.  A nan is a new object,
\* NaN(<<>>) until its holder is known.
float(text) == float_underscores(strip(text, Whitespace))

\* tuple(map(float, tokens)): the first failing conversion raises
RECURSIVE map_float(_)
map_float_rest(v, r) == IF ~r.ok THEN r ELSE Ok(<<v>> \o r.val)

map_float_head(h, rest) == IF ~h.ok THEN h ELSE map_float_rest(h.val, map_float(rest))

map_float(tokens) ==
    IF tokens = <<>> THEN Ok(<<>>) ELSE map_float_head(float(Head(tokens)), Tail(tokens))

\* line 54: tuple(map(float, node.strip('()').split(', ')))
parse_node(key) == map_float(split(strip(key, {"(", ")"})))

(***************************************************************************)
(* calculate_distance, lines 62-72: haversine(p1, p2, unit=Unit.METERS).   *)
(* A distance in metres is the float m + a / 2^24 + b / 2^48 + ..., written *)
(* <<m, a, b, ...>>: its whole part and the limbs of 24 bits of its        *)
(* fraction, three at least and seven at most, the last not 0 beyond the   *)
(* third.  0 is <<0, 0, 0>>.  NaNMetres is the distance that is nan.       *)
(***************************************************************************)

\* a coordinate in sixteenths of a degree
Sixteenths(x) ==
    Within((16 * x.n) \div 10^x.k, x.c = "fin" /\ (16 * x.n) % 10^x.k = 0)

\* 2 * 6371008.8 * asin(sqrt(sin^2(dlat/2) + cos(lat1) cos(lat2) sin^2(dlng/2)))
\* evaluated in floats, for the points <<lat1, lng1, lat2, lng2>> of the
\* model, in sixteenths of a degree
Haversine ==
    (<<-1440, -2880, -1440, -2880>> :> <<0, 0, 0>> @@
     <<-1440, -2880, -1440, -1920>> :> <<0, 0, 109806, 11798826, 1818624>> @@
     <<-1440, -2880, -1440, -960>> :> <<0, 0, 190190, 13238336, 7233536>> @@
     <<-1440, -2880, -1440, 0>> :> <<0, 0, 219613, 6820436, 3637248>> @@
     <<-1440, -2880, -1440, 960>> :> <<0, 0, 190190, 13238336, 7233536>> @@
     <<-1440, -2880, -1440, 1920>> :> <<0, 0, 109806, 11798826, 1835008>> @@
     <<-1440, -2880, -1440, 2880>> :> <<0, 0, 0, 0, 7570, 3980894, 2176768>> @@
     <<-1440, -2880, -960, -2880>> :> <<3335852, 6828427, 6160384>> @@
     <<-1440, -2880, -960, -1920>> :> <<3335852, 6828427, 6160384>> @@
     <<-1440, -2880, -960, -960>> :> <<3335852, 6828427, 6422528>> @@
     <<-1440, -2880, -960, 0>> :> <<3335852, 6828427, 6422528>> @@
     <<-1440, -2880, -960, 960>> :> <<3335852, 6828427, 6422528>> @@
     <<-1440, -2880, -960, 1920>> :> <<3335852, 6828427, 6160384>> @@
     <<-1440, -2880, -960, 2880>> :> <<3335852, 6828427, 6160384>> @@
     <<-1440, -2880, -480, -2880>> :> <<6671704, 13656854, 12320768>> @@
     <<-1440, -2880, -480, -1920>> :> <<6671704, 13656854, 12320768>> @@
     <<-1440, -2880, -480, -960>> :> <<6671704, 13656854, 12320768>> @@
     <<-1440, -2880, -480, 0>> :> <<6671704, 13656854, 12320768>> @@
     <<-1440, -2880, -480, 960>> :> <<6671704, 13656854, 12320768>> @@
     <<-1440, -2880, -480, 1920>> :> <<6671704, 13656854, 12320768>>) @@
    (<<-1440, -2880, -480, 2880>> :> <<6671704, 13656854, 12320768>> @@
     <<-1440, -2880, 0, -2880>> :> <<10007557, 3708066, 1048576>> @@
     <<-1440, -2880, 0, -1920>> :> <<10007557, 3708066, 1048576>> @@
     <<-1440, -2880, 0, -960>> :> <<10007557, 3708066, 1048576>> @@
     <<-1440, -2880, 0, 0>> :> <<10007557, 3708066, 1048576>> @@
     <<-1440, -2880, 0, 960>> :> <<10007557, 3708066, 1048576>> @@
     <<-1440, -2880, 0, 1920>> :> <<10007557, 3708066, 1048576>> @@
     <<-1440, -2880, 0, 2880>> :> <<10007557, 3708066, 1048576>> @@
     <<-1440, -2880, 480, -2880>> :> <<13343409, 10536493, 7340032>> @@
     <<-1440, -2880, 480, -1920>> :> <<13343409, 10536493, 7340032>> @@
     <<-1440, -2880, 480, -960>> :> <<13343409, 10536493, 7340032>> @@
     <<-1440, -2880, 480, 0>> :> <<13343409, 10536493, 7340032>> @@
     <<-1440, -2880, 480, 960>> :> <<13343409, 10536493, 7340032>> @@
     <<-1440, -2880, 480, 1920>> :> <<13343409, 10536493, 7340032>> @@
     <<-1440, -2880, 480, 2880>> :> <<13343409, 10536493, 7340032>> @@
     <<-1440, -2880, 960, -2880>> :> <<16679262, 587704, 12058624>> @@
     <<-1440, -2880, 960, -1920>> :> <<16679262, 587704, 12058624>> @@
     <<-1440, -2880, 960, -960>> :> <<16679262, 587704, 12058624>> @@
     <<-1440, -2880, 960, 0>> :> <<16679262, 587704, 12058624>> @@
     <<-1440, -2880, 960, 960>> :> <<16679262, 587704, 12058624>>) @@
    (<<-1440, -2880, 960, 1920>> :> <<16679262, 587704, 12058624>> @@
     <<-1440, -2880, 960, 2880>> :> <<16679262, 587704, 12058624>> @@
     <<-1440, -2880, 1440, -2880>> :> <<20015114, 7416132, 3145728>> @@
     <<-1440, -2880, 1440, -1920>> :> <<20015114, 7416132, 3145728>> @@
     <<-1440, -2880, 1440, -960>> :> <<20015114, 7416132, 3145728>> @@
     <<-1440, -2880, 1440, 0>> :> <<20015114, 7416132, 3145728>> @@
     <<-1440, -2880, 1440, 960>> :> <<20015114, 7416132, 3145728>> @@
     <<-1440, -2880, 1440, 1920>> :> <<20015114, 7416132, 3145728>> @@
     <<-1440, -2880, 1440, 2880>> :> <<20015114, 7416132, 3145728>> @@
     <<-1440, -2880, 0, 480>> :> <<10007557, 3708066, 1048576>> @@
     <<-1440, -2880, 160, 800>> :> <<11119508, 391803, 3145728>> @@
     <<-1440, -2880, 8, 0>> :> <<10063154, 12769721, 12058624>> @@
     <<-1440, -2880, 0, 720>> :> <<10007557, 3708066, 1048576>> @@
     <<-1440, -2880, 168, 804>> :> <<11175105, 9453458, 14155776>> @@
     <<-1440, -2880, 720, 1440>> :> <<15011335, 13950707, 2097152>> @@
     <<-1440, -2880, -480, -2400>> :> <<6671704, 13656854, 12320768>> @@
     <<-1440, -2880, 0, 240>> :> <<10007557, 3708066, 1048576>> @@
     <<-1440, -2880, 480, 480>> :> <<13343409, 10536493, 7340032>> @@
     <<-1440, -2880, -960, 2160>> :> <<3335852, 6828427, 6160384>> @@
     <<-1440, -2880, 160, 960>> :> <<11119508, 391803, 3145728>>) @@
    (<<-1440, -2880, 16, 0>> :> <<10118752, 5054161, 6815744>> @@
     <<-1440, -2880, 0, 16>> :> <<10007557, 3708066, 1048576>> @@
     <<-1440, -2880, 0, 32>> :> <<10007557, 3708066, 1048576>> @@
     <<-1440, -2880, 16, 16>> :> <<10118752, 5054161, 6815744>> @@
     <<-1440, -2880, 0, 160>> :> <<10007557, 3708066, 1048576>> @@
     <<-1440, -2880, 160, 0>> :> <<11119508, 391803, 3670016>> @@
     <<-1440, -2880, 160, 160>> :> <<11119508, 391803, 3670016>> @@
     <<-1440, -2880, 720, 720>> :> <<15011335, 13950707, 2097152>> @@
     <<-1440, -2880, -720, -1440>> :> <<5003778, 10242641, 1048576>> @@
     <<-1440, -2880, 720, -1440>> :> <<15011335, 13950707, 2097152>> @@
     <<-1440, -2880, -160, -960>> :> <<8895606, 7024328, 15728640>> @@
     <<-1440, -2880, 0, 1440>> :> <<10007557, 3708066, 1048576>> @@
     <<-1440, -2880, 0, -1440>> :> <<10007557, 3708066, 1048576>> @@
     <<-1440, -2880, 1, 1>> :> <<10014506, 15326533, 1048576>> @@
     <<-1440, -1920, -1440, -2880>> :> <<0, 0, 109806, 11798826, 1818624>> @@
     <<-1440, -1920, -1440, -1920>> :> <<0, 0, 0>> @@
     <<-1440, -1920, -1440, -960>> :> <<0, 0, 109806, 11798826, 1810432>> @@
     <<-1440, -1920, -1440, 0>> :> <<0, 0, 190190, 13238336, 7225344>> @@
     <<-1440, -1920, -1440, 960>> :> <<0, 0, 219613, 6820436, 3637248>> @@
     <<-1440, -1920, -1440, 1920>> :> <<0, 0, 190190, 13238336, 7233536>>) @@
    (<<-1440, -1920, -1440, 2880>> :> <<0, 0, 109806, 11798826, 1835008>> @@
     <<-1440, -1920, -960, -2880>> :> <<3335852, 6828427, 6160384>> @@
     <<-1440, -1920, -960, -1920>> :> <<3335852, 6828427, 6160384>> @@
     <<-1440, -1920, -960, -960>> :> <<3335852, 6828427, 6160384>> @@
     <<-1440, -1920, -960, 0>> :> <<3335852, 6828427, 6422528>> @@
     <<-1440, -1920, -960, 960>> :> <<3335852, 6828427, 6422528>> @@
     <<-1440, -1920, -960, 1920>> :> <<3335852, 6828427, 6422528>> @@
     <<-1440, -1920, -960, 2880>> :> <<3335852, 6828427, 6160384>> @@
     <<-1440, -1920, -480, -2880>> :> <<6671704, 13656854, 12320768>> @@
     <<-1440, -1920, -480, -1920>> :> <<6671704, 13656854, 12320768>> @@
     <<-1440, -1920, -480, -960>> :> <<6671704, 13656854, 12320768>> @@
     <<-1440, -1920, -480, 0>> :> <<6671704, 13656854, 12320768>> @@
     <<-1440, -1920, -480, 960>> :> <<6671704, 13656854, 12320768>> @@
     <<-1440, -1920, -480, 1920>> :> <<6671704, 13656854, 12320768>> @@
     <<-1440, -1920, -480, 2880>> :> <<6671704, 13656854, 12320768>> @@
     <<-1440, -1920, 0, -2880>> :> <<10007557, 3708066, 1048576>> @@
     <<-1440, -1920, 0, -1920>> :> <<10007557, 3708066, 1048576>> @@
     <<-1440, -1920, 0, -960>> :> <<10007557, 3708066, 1048576>> @@
     <<-1440, -1920, 0, 0>> :> <<10007557, 3708066, 1048576>> @@
     <<-1440, -1920, 0, 960>> :> <<10007557, 3708066, 1048576>>) @@
    (<<-1440, -1920, 0, 1920>> :> <<10007557, 3708066, 1048576>> @@
     <<-1440, -1920, 0, 2880>> :> <<10007557, 3708066, 1048576>> @@
     <<-1440, -1920, 480, -2880>> :> <<13343409, 10536493, 7340032>> @@
     <<-1440, -1920, 480, -1920>> :> <<13343409, 10536493, 7340032>> @@
     <<-1440, -1920, 480, -960>> :> <<13343409, 10536493, 7340032>> @@
     <<-1440, -1920, 480, 0>> :> <<13343409, 10536493, 7340032>> @@
     <<-1440, -1920, 480, 960>> :> <<13343409, 10536493, 7340032>> @@
     <<-1440, -1920, 480, 1920>> :> <<13343409, 10536493, 7340032>> @@
     <<-1440, -1920, 480, 2880>> :> <<13343409, 10536493, 7340032>> @@
     <<-1440, -1920, 960, -2880>> :> <<16679262, 587704, 12058624>> @@
     <<-1440, -1920, 960, -1920>> :> <<16679262, 587704, 12058624>> @@
     <<-1440, -1920, 960, -960>> :> <<16679262, 587704, 12058624>> @@
     <<-1440, -1920, 960, 0>> :> <<16679262, 587704, 12058624>> @@
     <<-1440, -1920, 960, 960>> :> <<16679262, 587704, 12058624>> @@
     <<-1440, -1920, 960, 1920>> :> <<16679262, 587704, 12058624>> @@
     <<-1440, -1920, 960, 2880>> :> <<16679262, 587704, 12058624>> @@
     <<-1440, -1920, 1440, -2880>> :> <<20015114, 7416132, 3145728>> @@
     <<-1440, -1920, 1440, -1920>> :> <<20015114, 7416132, 3145728>> @@
     <<-1440, -1920, 1440, -960>> :> <<20015114, 7416132, 3145728>> @@
     <<-1440, -1920, 1440, 0>> :> <<20015114, 7416132, 3145728>>) @@
    (<<-1440, -1920, 1440, 960>> :> <<20015114, 7416132, 3145728>> @@
     <<-1440, -1920, 1440, 1920>> :> <<20015114, 7416132, 3145728>> @@
     <<-1440, -1920, 1440, 2880>> :> <<20015114, 7416132, 3145728>> @@
     <<-1440, -1920, 0, 480>> :> <<10007557, 3708066, 1048576>> @@
     <<-1440, -1920, 160, 800>> :> <<11119508, 391803, 3670016>> @@
     <<-1440, -1920, 8, 0>> :> <<10063154, 12769721, 12058624>> @@
     <<-1440, -1920, 0, 720>> :> <<10007557, 3708066, 1048576>> @@
     <<-1440, -1920, 168, 804>> :> <<11175105, 9453458, 14680064>> @@
     <<-1440, -1920, 720, 1440>> :> <<15011335, 13950707, 2097152>> @@
     <<-1440, -1920, -480, -2400>> :> <<6671704, 13656854, 12320768>> @@
     <<-1440, -1920, 0, 240>> :> <<10007557, 3708066, 1048576>> @@
     <<-1440, -1920, 480, 480>> :> <<13343409, 10536493, 7340032>> @@
     <<-1440, -1920, -960, 2160>> :> <<3335852, 6828427, 6160384>> @@
     <<-1440, -1920, 160, 960>> :> <<11119508, 391803, 3670016>> @@
     <<-1440, -1920, 16, 0>> :> <<10118752, 5054161, 6815744>> @@
     <<-1440, -1920, 0, 16>> :> <<10007557, 3708066, 1048576>> @@
     <<-1440, -1920, 0, 32>> :> <<10007557, 3708066, 1048576>> @@
     <<-1440, -1920, 16, 16>> :> <<10118752, 5054161, 6815744>> @@
     <<-1440, -1920, 0, 160>> :> <<10007557, 3708066, 1048576>> @@
     <<-1440, -1920, 160, 0>> :> <<11119508, 391803, 3145728>>) @@
    (<<-1440, -1920, 160, 160>> :> <<11119508, 391803, 3145728>> @@
     <<-1440, -1920, 720, 720>> :> <<15011335, 13950707, 2097152>> @@
     <<-1440, -1920, -720, -1440>> :> <<5003778, 10242641, 786432>> @@
     <<-1440, -1920, 720, -1440>> :> <<15011335, 13950707, 2097152>> @@
     <<-1440, -1920, -160, -960>> :> <<8895606, 7024328, 15728640>> @@
     <<-1440, -1920, 0, 1440>> :> <<10007557, 3708066, 1048576>> @@
     <<-1440, -1920, 0, -1440>> :> <<10007557, 3708066, 1048576>> @@
     <<-1440, -1920, 1, 1>> :> <<10014506, 15326533, 0>> @@
     <<-1440, -960, -1440, -2880>> :> <<0, 0, 190190, 13238336, 7233536>> @@
     <<-1440, -960, -1440, -1920>> :> <<0, 0, 109806, 11798826, 1810432>> @@
     <<-1440, -960, -1440, -960>> :> <<0, 0, 0>> @@
     <<-1440, -960, -1440, 0>> :> <<0, 0, 109806, 11798826, 1810432>> @@
     <<-1440, -960, -1440, 960>> :> <<0, 0, 190190, 13238336, 7225344>> @@
     <<-1440, -960, -1440, 1920>> :> <<0, 0, 219613, 6820436, 3637248>> @@
     <<-1440, -960, -1440, 2880>> :> <<0, 0, 190190, 13238336, 7233536>> @@
     <<-1440, -960, -960, -2880>> :> <<3335852, 6828427, 6422528>> @@
     <<-1440, -960, -960, -1920>> :> <<3335852, 6828427, 6160384>> @@
     <<-1440, -960, -960, -960>> :> <<3335852, 6828427, 6160384>> @@
     <<-1440, -960, -960, 0>> :> <<3335852, 6828427, 6160384>> @@
     <<-1440, -960, -960, 960>> :> <<3335852, 6828427, 6422528>>) @@
    (<<-1440, -960, -960, 1920>> :> <<3335852, 6828427, 6422528>> @@
     <<-1440, -960, -960, 2880>> :> <<3335852, 6828427, 6422528>> @@
     <<-1440, -960, -480, -2880>> :> <<6671704, 13656854, 12320768>> @@
     <<-1440, -960, -480, -1920>> :> <<6671704, 13656854, 12320768>> @@
     <<-1440, -960, -480, -960>> :> <<6671704, 13656854, 12320768>> @@
     <<-1440, -960, -480, 0>> :> <<6671704, 13656854, 12320768>> @@
     <<-1440, -960, -480, 960>> :> <<6671704, 13656854, 12320768>> @@
     <<-1440, -960, -480, 1920>> :> <<6671704, 13656854, 12320768>> @@
     <<-1440, -960, -480, 2880>> :> <<6671704, 13656854, 12320768>> @@
     <<-1440, -960, 0, -2880>> :> <<10007557, 3708066, 1048576>> @@
     <<-1440, -960, 0, -1920>> :> <<10007557, 3708066, 1048576>> @@
     <<-1440, -960, 0, -960>> :> <<10007557, 3708066, 1048576>> @@
     <<-1440, -960, 0, 0>> :> <<10007557, 3708066, 1048576>> @@
     <<-1440, -960, 0, 960>> :> <<10007557, 3708066, 1048576>> @@
     <<-1440, -960, 0, 1920>> :> <<10007557, 3708066, 1048576>> @@
     <<-1440, -960, 0, 2880>> :> <<10007557, 3708066, 1048576>> @@
     <<-1440, -960, 480, -2880>> :> <<13343409, 10536493, 7340032>> @@
     <<-1440, -960, 480, -1920>> :> <<13343409, 10536493, 7340032>> @@
     <<-1440, -960, 480, -960>> :> <<13343409, 10536493, 7340032>> @@
     <<-1440, -960, 480, 0>> :> <<13343409, 10536493, 7340032>>) @@
    (<<-1440, -960, 480, 960>> :> <<13343409, 10536493, 7340032>> @@
     <<-1440, -960, 480, 1920>> :> <<13343409, 10536493, 7340032>> @@
     <<-1440, -960, 480, 2880>> :> <<13343409, 10536493, 7340032>> @@
     <<-1440, -960, 960, -2880>> :> <<16679262, 587704, 12058624>> @@
     <<-1440, -960, 960, -1920>> :> <<16679262, 587704, 12058624>> @@
     <<-1440, -960, 960, -960>> :> <<16679262, 587704, 12058624>> @@
     <<-1440, -960, 960, 0>> :> <<16679262, 587704, 12058624>> @@
     <<-1440, -960, 960, 960>> :> <<16679262, 587704, 12058624>> @@
     <<-1440, -960, 960, 1920>> :> <<16679262, 587704, 12058624>> @@
     <<-1440, -960, 960, 2880>> :> <<16679262, 587704, 12058624>> @@
     <<-1440, -960, 1440, -2880>> :> <<20015114, 7416132, 3145728>> @@
     <<-1440, -960, 1440, -1920>> :> <<20015114, 7416132, 3145728>> @@
     <<-1440, -960, 1440, -960>> :> <<20015114, 7416132, 3145728>> @@
     <<-1440, -960, 1440, 0>> :> <<20015114, 7416132, 3145728>> @@
     <<-1440, -960, 1440, 960>> :> <<20015114, 7416132, 3145728>> @@
     <<-1440, -960, 1440, 1920>> :> <<20015114, 7416132, 3145728>> @@
     <<-1440, -960, 1440, 2880>> :> <<20015114, 7416132, 3145728>> @@
     <<-1440, -960, 0, 480>> :> <<10007557, 3708066, 1048576>> @@
     <<-1440, -960, 160, 800>> :> <<11119508, 391803, 3145728>> @@
     <<-1440, -960, 8, 0>> :> <<10063154, 12769721, 12058624>>) @@
    (<<-1440, -960, 0, 720>> :> <<10007557, 3708066, 1048576>> @@
     <<-1440, -960, 168, 804>> :> <<11175105, 9453458, 14155776>> @@
     <<-1440, -960, 720, 1440>> :> <<15011335, 13950707, 2097152>> @@
     <<-1440, -960, -480, -2400>> :> <<6671704, 13656854, 12320768>> @@
     <<-1440, -960, 0, 240>> :> <<10007557, 3708066, 1048576>> @@
     <<-1440, -960, 480, 480>> :> <<13343409, 10536493, 7340032>> @@
     <<-1440, -960, -960, 2160>> :> <<3335852, 6828427, 6422528>> @@
     <<-1440, -960, 160, 960>> :> <<11119508, 391803, 3145728>> @@
     <<-1440, -960, 16, 0>> :> <<10118752, 5054161, 6815744>> @@
     <<-1440, -960, 0, 16>> :> <<10007557, 3708066, 1048576>> @@
     <<-1440, -960, 0, 32>> :> <<10007557, 3708066, 1048576>> @@
     <<-1440, -960, 16, 16>> :> <<10118752, 5054161, 6815744>> @@
     <<-1440, -960, 0, 160>> :> <<10007557, 3708066, 1048576>> @@
     <<-1440, -960, 160, 0>> :> <<11119508, 391803, 3145728>> @@
     <<-1440, -960, 160, 160>> :> <<11119508, 391803, 3145728>> @@
     <<-1440, -960, 720, 720>> :> <<15011335, 13950707, 2097152>> @@
     <<-1440, -960, -720, -1440>> :> <<5003778, 10242641, 786432>> @@
     <<-1440, -960, 720, -1440>> :> <<15011335, 13950707, 2097152>> @@
     <<-1440, -960, -160, -960>> :> <<8895606, 7024328, 15728640>> @@
     <<-1440, -960, 0, 1440>> :> <<10007557, 3708066, 1048576>>) @@
    (<<-1440, -960, 0, -1440>> :> <<10007557, 3708066, 1048576>> @@
     <<-1440, -960, 1, 1>> :> <<10014506, 15326533, 0>> @@
     <<-1440, 0, -1440, -2880>> :> <<0, 0, 219613, 6820436, 3637248>> @@
     <<-1440, 0, -1440, -1920>> :> <<0, 0, 190190, 13238336, 7225344>> @@
     <<-1440, 0, -1440, -960>> :> <<0, 0, 109806, 11798826, 1810432>> @@
     <<-1440, 0, -1440, 0>> :> <<0, 0, 0>> @@
     <<-1440, 0, -1440, 960>> :> <<0, 0, 109806, 11798826, 1810432>> @@
     <<-1440, 0, -1440, 1920>> :> <<0, 0, 190190, 13238336, 7225344>> @@
     <<-1440, 0, -1440, 2880>> :> <<0, 0, 219613, 6820436, 3637248>> @@
     <<-1440, 0, -960, -2880>> :> <<3335852, 6828427, 6422528>> @@
     <<-1440, 0, -960, -1920>> :> <<3335852, 6828427, 6422528>> @@
     <<-1440, 0, -960, -960>> :> <<3335852, 6828427, 6160384>> @@
     <<-1440, 0, -960, 0>> :> <<3335852, 6828427, 6160384>> @@
     <<-1440, 0, -960, 960>> :> <<3335852, 6828427, 6160384>> @@
     <<-1440, 0, -960, 1920>> :> <<3335852, 6828427, 6422528>> @@
     <<-1440, 0, -960, 2880>> :> <<3335852, 6828427, 6422528>> @@
     <<-1440, 0, -480, -2880>> :> <<6671704, 13656854, 12320768>> @@
     <<-1440, 0, -480, -1920>> :> <<6671704, 13656854, 12320768>> @@
     <<-1440, 0, -480, -960>> :> <<6671704, 13656854, 12320768>> @@
     <<-1440, 0, -480, 0>> :> <<6671704, 13656854, 12320768>>) @@
    (<<-1440, 0, -480, 960>> :> <<6671704, 13656854, 12320768>> @@
     <<-1440, 0, -480, 1920>> :> <<6671704, 13656854, 12320768>> @@
     <<-1440, 0, -480, 2880>> :> <<6671704, 13656854, 12320768>> @@
     <<-1440, 0, 0, -2880>> :> <<10007557, 3708066, 1048576>> @@
     <<-1440, 0, 0, -1920>> :> <<10007557, 3708066, 1048576>> @@
     <<-1440, 0, 0, -960>> :> <<10007557, 3708066, 1048576>> @@
     <<-1440, 0, 0, 0>> :> <<10007557, 3708066, 1048576>> @@
     <<-1440, 0, 0, 960>> :> <<10007557, 3708066, 1048576>> @@
     <<-1440, 0, 0, 1920>> :> <<10007557, 3708066, 1048576>> @@
     <<-1440, 0, 0, 2880>> :> <<10007557, 3708066, 1048576>> @@
     <<-1440, 0, 480, -2880>> :> <<13343409, 10536493, 7340032>> @@
     <<-1440, 0, 480, -1920>> :> <<13343409, 10536493, 7340032>> @@
     <<-1440, 0, 480, -960>> :> <<13343409, 10536493, 7340032>> @@
     <<-1440, 0, 480, 0>> :> <<13343409, 10536493, 7340032>> @@
     <<-1440, 0, 480, 960>> :> <<13343409, 10536493, 7340032>> @@
     <<-1440, 0, 480, 1920>> :> <<13343409, 10536493, 7340032>> @@
     <<-1440, 0, 480, 2880>> :> <<13343409, 10536493, 7340032>> @@
     <<-1440, 0, 960, -2880>> :> <<16679262, 587704, 12058624>> @@
     <<-1440, 0, 960, -1920>> :> <<16679262, 587704, 12058624>> @@
     <<-1440, 0, 960, -960>> :> <<16679262, 587704, 12058624>>) @@
    (<<-1440, 0, 960, 0>> :> <<16679262, 587704, 12058624>> @@
     <<-1440, 0, 960, 960>> :> <<16679262, 587704, 12058624>> @@
     <<-1440, 0, 960, 1920>> :> <<16679262, 587704, 12058624>> @@
     <<-1440, 0, 960, 2880>> :> <<16679262, 587704, 12058624>> @@
     <<-1440, 0, 1440, -2880>> :> <<20015114, 7416132, 3145728>> @@
     <<-1440, 0, 1440, -1920>> :> <<20015114, 7416132, 3145728>> @@
     <<-1440, 0, 1440, -960>> :> <<20015114, 7416132, 3145728>> @@
     <<-1440, 0, 1440, 0>> :> <<20015114, 7416132, 3145728>> @@
     <<-1440, 0, 1440, 960>> :> <<20015114, 7416132, 3145728>> @@
     <<-1440, 0, 1440, 1920>> :> <<20015114, 7416132, 3145728>> @@
     <<-1440, 0, 1440, 2880>> :> <<20015114, 7416132, 3145728>> @@
     <<-1440, 0, 0, 480>> :> <<10007557, 3708066, 1048576>> @@
     <<-1440, 0, 160, 800>> :> <<11119508, 391803, 3145728>> @@
     <<-1440, 0, 8, 0>> :> <<10063154, 12769721, 12058624>> @@
     <<-1440, 0, 0, 720>> :> <<10007557, 3708066, 1048576>> @@
     <<-1440, 0, 168, 804>> :> <<11175105, 9453458, 14155776>> @@
     <<-1440, 0, 720, 1440>> :> <<15011335, 13950707, 2097152>> @@
     <<-1440, 0, -480, -2400>> :> <<6671704, 13656854, 12320768>> @@
     <<-1440, 0, 0, 240>> :> <<10007557, 3708066, 1048576>> @@
     <<-1440, 0, 480, 480>> :> <<13343409, 10536493, 7340032>>) @@
    (<<-1440, 0, -960, 2160>> :> <<3335852, 6828427, 6422528>> @@
     <<-1440, 0, 160, 960>> :> <<11119508, 391803, 3145728>> @@
     <<-1440, 0, 16, 0>> :> <<10118752, 5054161, 6815744>> @@
     <<-1440, 0, 0, 16>> :> <<10007557, 3708066, 1048576>> @@
     <<-1440, 0, 0, 32>> :> <<10007557, 3708066, 1048576>> @@
     <<-1440, 0, 16, 16>> :> <<10118752, 5054161, 6815744>> @@
     <<-1440, 0, 0, 160>> :> <<10007557, 3708066, 1048576>> @@
     <<-1440, 0, 160, 0>> :> <<11119508, 391803, 3145728>> @@
     <<-1440, 0, 160, 160>> :> <<11119508, 391803, 3145728>> @@
     <<-1440, 0, 720, 720>> :> <<15011335, 13950707, 2097152>> @@
     <<-1440, 0, -720, -1440>> :> <<5003778, 10242641, 1048576>> @@
     <<-1440, 0, 720, -1440>> :> <<15011335, 13950707, 2097152>> @@
     <<-1440, 0, -160, -960>> :> <<8895606, 7024328, 15728640>> @@
     <<-1440, 0, 0, 1440>> :> <<10007557, 3708066, 1048576>> @@
     <<-1440, 0, 0, -1440>> :> <<10007557, 3708066, 1048576>> @@
     <<-1440, 0, 1, 1>> :> <<10014506, 15326533, 0>> @@
     <<-1440, 960, -1440, -2880>> :> <<0, 0, 190190, 13238336, 7233536>> @@
     <<-1440, 960, -1440, -1920>> :> <<0, 0, 219613, 6820436, 3637248>> @@
     <<-1440, 960, -1440, -960>> :> <<0, 0, 190190, 13238336, 7225344>> @@
     <<-1440, 960, -1440, 0>> :> <<0, 0, 109806, 11798826, 1810432>>) @@
    (<<-1440, 960, -1440, 960>> :> <<0, 0, 0>> @@
     <<-1440, 960, -1440, 1920>> :> <<0, 0, 109806, 11798826, 1810432>> @@
     <<-1440, 960, -1440, 2880>> :> <<0, 0, 190190, 13238336, 7233536>> @@
     <<-1440, 960, -960, -2880>> :> <<3335852, 6828427, 6422528>> @@
     <<-1440, 960, -960, -1920>> :> <<3335852, 6828427, 6422528>> @@
     <<-1440, 960, -960, -960>> :> <<3335852, 6828427, 6422528>> @@
     <<-1440, 960, -960, 0>> :> <<3335852, 6828427, 6160384>> @@
     <<-1440, 960, -960, 960>> :> <<3335852, 6828427, 6160384>> @@
     <<-1440, 960, -960, 1920>> :> <<3335852, 6828427, 6160384>> @@
     <<-1440, 960, -960, 2880>> :> <<3335852, 6828427, 6422528>> @@
     <<-1440, 960, -480, -2880>> :> <<6671704, 13656854, 12320768>> @@
     <<-1440, 960, -480, -1920>> :> <<6671704, 13656854, 12320768>> @@
     <<-1440, 960, -480, -960>> :> <<6671704, 13656854, 12320768>> @@
     <<-1440, 960, -480, 0>> :> <<6671704, 13656854, 12320768>> @@
     <<-1440, 960, -480, 960>> :> <<6671704, 13656854, 12320768>> @@
     <<-1440, 960, -480, 1920>> :> <<6671704, 13656854, 12320768>> @@
     <<-1440, 960, -480, 2880>> :> <<6671704, 13656854, 12320768>> @@
     <<-1440, 960, 0, -2880>> :> <<10007557, 3708066, 1048576>> @@
     <<-1440, 960, 0, -1920>> :> <<10007557, 3708066, 1048576>> @@
     <<-1440, 960, 0, -960>> :> <<10007557, 3708066, 1048576>>) @@
    (<<-1440, 960, 0, 0>> :> <<10007557, 3708066, 1048576>> @@
     <<-1440, 960, 0, 960>> :> <<10007557, 3708066, 1048576>> @@
     <<-1440, 960, 0, 1920>> :> <<10007557, 3708066, 1048576>> @@
     <<-1440, 960, 0, 2880>> :> <<10007557, 3708066, 1048576>> @@
     <<-1440, 960, 480, -2880>> :> <<13343409, 10536493, 7340032>> @@
     <<-1440, 960, 480, -1920>> :> <<13343409, 10536493, 7340032>> @@
     <<-1440, 960, 480, -960>> :> <<13343409, 10536493, 7340032>> @@
     <<-1440, 960, 480, 0>> :> <<13343409, 10536493, 7340032>> @@
     <<-1440, 960, 480, 960>> :> <<13343409, 10536493, 7340032>> @@
     <<-1440, 960, 480, 1920>> :> <<13343409, 10536493, 7340032>> @@
     <<-1440, 960, 480, 2880>> :> <<13343409, 10536493, 7340032>> @@
     <<-1440, 960, 960, -2880>> :> <<16679262, 587704, 12058624>> @@
     <<-1440, 960, 960, -1920>> :> <<16679262, 587704, 12058624>> @@
     <<-1440, 960, 960, -960>> :> <<16679262, 587704, 12058624>> @@
     <<-1440, 960, 960, 0>> :> <<16679262, 587704, 12058624>> @@
     <<-1440, 960, 960, 960>> :> <<16679262, 587704, 12058624>> @@
     <<-1440, 960, 960, 1920>> :> <<16679262, 587704, 12058624>> @@
     <<-1440, 960, 960, 2880>> :> <<16679262, 587704, 12058624>> @@
     <<-1440, 960, 1440, -2880>> :> <<20015114, 7416132, 3145728>> @@
     <<-1440, 960, 1440, -1920>> :> <<20015114, 7416132, 3145728>>) @@
    (<<-1440, 960, 1440, -960>> :> <<20015114, 7416132, 3145728>> @@
     <<-1440, 960, 1440, 0>> :> <<20015114, 7416132, 3145728>> @@
     <<-1440, 960, 1440, 960>> :> <<20015114, 7416132, 3145728>> @@
     <<-1440, 960, 1440, 1920>> :> <<20015114, 7416132, 3145728>> @@
     <<-1440, 960, 1440, 2880>> :> <<20015114, 7416132, 3145728>> @@
     <<-1440, 960, 0, 480>> :> <<10007557, 3708066, 1048576>> @@
     <<-1440, 960, 160, 800>> :> <<11119508, 391803, 3145728>> @@
     <<-1440, 960, 8, 0>> :> <<10063154, 12769721, 12058624>> @@
     <<-1440, 960, 0, 720>> :> <<10007557, 3708066, 1048576>> @@
     <<-1440, 960, 168, 804>> :> <<11175105, 9453458, 14155776>> @@
     <<-1440, 960, 720, 1440>> :> <<15011335, 13950707, 2097152>> @@
     <<-1440, 960, -480, -2400>> :> <<6671704, 13656854, 12320768>> @@
     <<-1440, 960, 0, 240>> :> <<10007557, 3708066, 1048576>> @@
     <<-1440, 960, 480, 480>> :> <<13343409, 10536493, 7340032>> @@
     <<-1440, 960, -960, 2160>> :> <<3335852, 6828427, 6160384>> @@
     <<-1440, 960, 160, 960>> :> <<11119508, 391803, 3145728>> @@
     <<-1440, 960, 16, 0>> :> <<10118752, 5054161, 6815744>> @@
     <<-1440, 960, 0, 16>> :> <<10007557, 3708066, 1048576>> @@
     <<-1440, 960, 0, 32>> :> <<10007557, 3708066, 1048576>> @@
     <<-1440, 960, 16, 16>> :> <<10118752, 5054161, 6815744>>) @@
    (<<-1440, 960, 0, 160>> :> <<10007557, 3708066, 1048576>> @@
     <<-1440, 960, 160, 0>> :> <<11119508, 391803, 3145728>> @@
     <<-1440, 960, 160, 160>> :> <<11119508, 391803, 3145728>> @@
     <<-1440, 960, 720, 720>> :> <<15011335, 13950707, 2097152>> @@
     <<-1440, 960, -720, -1440>> :> <<5003778, 10242641, 1048576>> @@
     <<-1440, 960, 720, -1440>> :> <<15011335, 13950707, 2097152>> @@
     <<-1440, 960, -160, -960>> :> <<8895606, 7024328, 15728640>> @@
     <<-1440, 960, 0, 1440>> :> <<10007557, 3708066, 1048576>> @@
     <<-1440, 960, 0, -1440>> :> <<10007557, 3708066, 1048576>> @@
     <<-1440, 960, 1, 1>> :> <<10014506, 15326533, 0>> @@
     <<-1440, 1920, -1440, -2880>> :> <<0, 0, 109806, 11798826, 1835008>> @@
     <<-1440, 1920, -1440, -1920>> :> <<0, 0, 190190, 13238336, 7233536>> @@
     <<-1440, 1920, -1440, -960>> :> <<0, 0, 219613, 6820436, 3637248>> @@
     <<-1440, 1920, -1440, 0>> :> <<0, 0, 190190, 13238336, 7225344>> @@
     <<-1440, 1920, -1440, 960>> :> <<0, 0, 109806, 11798826, 1810432>> @@
     <<-1440, 1920, -1440, 1920>> :> <<0, 0, 0>> @@
     <<-1440, 1920, -1440, 2880>> :> <<0, 0, 109806, 11798826, 1818624>> @@
     <<-1440, 1920, -960, -2880>> :> <<3335852, 6828427, 6160384>> @@
     <<-1440, 1920, -960, -1920>> :> <<3335852, 6828427, 6422528>> @@
     <<-1440, 1920, -960, -960>> :> <<3335852, 6828427, 6422528>>) @@
    (<<-1440, 1920, -960, 0>> :> <<3335852, 6828427, 6422528>> @@
     <<-1440, 1920, -960, 960>> :> <<3335852, 6828427, 6160384>> @@
     <<-1440, 1920, -960, 1920>> :> <<3335852, 6828427, 6160384>> @@
     <<-1440, 1920, -960, 2880>> :> <<3335852, 6828427, 6160384>> @@
     <<-1440, 1920, -480, -2880>> :> <<6671704, 13656854, 12320768>> @@
     <<-1440, 1920, -480, -1920>> :> <<6671704, 13656854, 12320768>> @@
     <<-1440, 1920, -480, -960>> :> <<6671704, 13656854, 12320768>> @@
     <<-1440, 1920, -480, 0>> :> <<6671704, 13656854, 12320768>> @@
     <<-1440, 1920, -480, 960>> :> <<6671704, 13656854, 12320768>> @@
     <<-1440, 1920, -480, 1920>> :> <<6671704, 13656854, 12320768>> @@
     <<-1440, 1920, -480, 2880>> :> <<6671704, 13656854, 12320768>> @@
     <<-1440, 1920, 0, -2880>> :> <<10007557, 3708066, 1048576>> @@
     <<-1440, 1920, 0, -1920>> :> <<10007557, 3708066, 1048576>> @@
     <<-1440, 1920, 0, -960>> :> <<10007557, 3708066, 1048576>> @@
     <<-1440, 1920, 0, 0>> :> <<10007557, 3708066, 1048576>> @@
     <<-1440, 1920, 0, 960>> :> <<10007557, 3708066, 1048576>> @@
     <<-1440, 1920, 0, 1920>> :> <<10007557, 3708066, 1048576>> @@
     <<-1440, 1920, 0, 2880>> :> <<10007557, 3708066, 1048576>> @@
     <<-1440, 1920, 480, -2880>> :> <<13343409, 10536493, 7340032>> @@
     <<-1440, 1920, 480, -1920>> :> <<13343409, 10536493, 7340032>>) @@
    (<<-1440, 1920, 480, -960>> :> <<13343409, 10536493, 7340032>> @@
     <<-1440, 1920, 480, 0>> :> <<13343409, 10536493, 7340032>> @@
     <<-1440, 1920, 480, 960>> :> <<13343409, 10536493, 7340032>> @@
     <<-1440, 1920, 480, 1920>> :> <<13343409, 10536493, 7340032>> @@
     <<-1440, 1920, 480, 2880>> :> <<13343409, 10536493, 7340032>> @@
     <<-1440, 1920, 960, -2880>> :> <<16679262, 587704, 12058624>> @@
     <<-1440, 1920, 960, -1920>> :> <<16679262, 587704, 12058624>> @@
     <<-1440, 1920, 960, -960>> :> <<16679262, 587704, 12058624>> @@
     <<-1440, 1920, 960, 0>> :> <<16679262, 587704, 12058624>> @@
     <<-1440, 1920, 960, 960>> :> <<16679262, 587704, 12058624>> @@
     <<-1440, 1920, 960, 1920>> :> <<16679262, 587704, 12058624>> @@
     <<-1440, 1920, 960, 2880>> :> <<16679262, 587704, 12058624>> @@
     <<-1440, 1920, 1440, -2880>> :> <<20015114, 7416132, 3145728>> @@
     <<-1440, 1920, 1440, -1920>> :> <<20015114, 7416132, 3145728>> @@
     <<-1440, 1920, 1440, -960>> :> <<20015114, 7416132, 3145728>> @@
     <<-1440, 1920, 1440, 0>> :> <<20015114, 7416132, 3145728>> @@
     <<-1440, 1920, 1440, 960>> :> <<20015114, 7416132, 3145728>> @@
     <<-1440, 1920, 1440, 1920>> :> <<20015114, 7416132, 3145728>> @@
     <<-1440, 1920, 1440, 2880>> :> <<20015114, 7416132, 3145728>> @@
     <<-1440, 1920, 0, 480>> :> <<10007557, 3708066, 1048576>>) @@
    (<<-1440, 1920, 160, 800>> :> <<11119508, 391803, 3145728>> @@
     <<-1440, 1920, 8, 0>> :> <<10063154, 12769721, 12058624>> @@
     <<-1440, 1920, 0, 720>> :> <<10007557, 3708066, 1048576>> @@
     <<-1440, 1920, 168, 804>> :> <<11175105, 9453458, 14155776>> @@
     <<-1440, 1920, 720, 1440>> :> <<15011335, 13950707, 2097152>> @@
     <<-1440, 1920, -480, -2400>> :> <<6671704, 13656854, 12320768>> @@
     <<-1440, 1920, 0, 240>> :> <<10007557, 3708066, 1048576>> @@
     <<-1440, 1920, 480, 480>> :> <<13343409, 10536493, 7340032>> @@
     <<-1440, 1920, -960, 2160>> :> <<3335852, 6828427, 6160384>> @@
     <<-1440, 1920, 160, 960>> :> <<11119508, 391803, 3145728>> @@
     <<-1440, 1920, 16, 0>> :> <<10118752, 5054161, 6815744>> @@
     <<-1440, 1920, 0, 16>> :> <<10007557, 3708066, 1048576>> @@
     <<-1440, 1920, 0, 32>> :> <<10007557, 3708066, 1048576>> @@
     <<-1440, 1920, 16, 16>> :> <<10118752, 5054161, 6815744>> @@
     <<-1440, 1920, 0, 160>> :> <<10007557, 3708066, 1048576>> @@
     <<-1440, 1920, 160, 0>> :> <<11119508, 391803, 3145728>> @@
     <<-1440, 1920, 160, 160>> :> <<11119508, 391803, 3145728>> @@
     <<-1440, 1920, 720, 720>> :> <<15011335, 13950707, 2097152>> @@
     <<-1440, 1920, -720, -1440>> :> <<5003778, 10242641, 1048576>> @@
     <<-1440, 1920, 720, -1440>> :> <<15011335, 13950707, 2097152>>) @@
    (<<-1440, 1920, -160, -960>> :> <<8895606, 7024328, 15728640>> @@
     <<-1440, 1920, 0, 1440>> :> <<10007557, 3708066, 1048576>> @@
     <<-1440, 1920, 0, -1440>> :> <<10007557, 3708066, 1048576>> @@
     <<-1440, 1920, 1, 1>> :> <<10014506, 15326533, 0>> @@
     <<-1440, 2880, -1440, -2880>> :> <<0, 0, 0, 0, 7570, 3980894, 2176768>> @@
     <<-1440, 2880, -1440, -1920>> :> <<0, 0, 109806, 11798826, 1835008>> @@
     <<-1440, 2880, -1440, -960>> :> <<0, 0, 190190, 13238336, 7233536>> @@
     <<-1440, 2880, -1440, 0>> :> <<0, 0, 219613, 6820436, 3637248>> @@
     <<-1440, 2880, -1440, 960>> :> <<0, 0, 190190, 13238336, 7233536>> @@
     <<-1440, 2880, -1440, 1920>> :> <<0, 0, 109806, 11798826, 1818624>> @@
     <<-1440, 2880, -1440, 2880>> :> <<0, 0, 0>> @@
     <<-1440, 2880, -960, -2880>> :> <<3335852, 6828427, 6160384>> @@
     <<-1440, 2880, -960, -1920>> :> <<3335852, 6828427, 6160384>> @@
     <<-1440, 2880, -960, -960>> :> <<3335852, 6828427, 6422528>> @@
     <<-1440, 2880, -960, 0>> :> <<3335852, 6828427, 6422528>> @@
     <<-1440, 2880, -960, 960>> :> <<3335852, 6828427, 6422528>> @@
     <<-1440, 2880, -960, 1920>> :> <<3335852, 6828427, 6160384>> @@
     <<-1440, 2880, -960, 2880>> :> <<3335852, 6828427, 6160384>> @@
     <<-1440, 2880, -480, -2880>> :> <<6671704, 13656854, 12320768>> @@
     <<-1440, 2880, -480, -1920>> :> <<6671704, 13656854, 12320768>>) @@
    (<<-1440, 2880, -480, -960>> :> <<6671704, 13656854, 12320768>> @@
     <<-1440, 2880, -480, 0>> :> <<6671704, 13656854, 12320768>> @@
     <<-1440, 2880, -480, 960>> :> <<6671704, 13656854, 12320768>> @@
     <<-1440, 2880, -480, 1920>> :> <<6671704, 13656854, 12320768>> @@
     <<-1440, 2880, -480, 2880>> :> <<6671704, 13656854, 12320768>> @@
     <<-1440, 2880, 0, -2880>> :> <<10007557, 3708066, 1048576>> @@
     <<-1440, 2880, 0, -1920>> :> <<10007557, 3708066, 1048576>> @@
     <<-1440, 2880, 0, -960>> :> <<10007557, 3708066, 1048576>> @@
     <<-1440, 2880, 0, 0>> :> <<10007557, 3708066, 1048576>> @@
     <<-1440, 2880, 0, 960>> :> <<10007557, 3708066, 1048576>> @@
     <<-1440, 2880, 0, 1920>> :> <<10007557, 3708066, 1048576>> @@
     <<-1440, 2880, 0, 2880>> :> <<10007557, 3708066, 1048576>> @@
     <<-1440, 2880, 480, -2880>> :> <<13343409, 10536493, 7340032>> @@
     <<-1440, 2880, 480, -1920>> :> <<13343409, 10536493, 7340032>> @@
     <<-1440, 2880, 480, -960>> :> <<13343409, 10536493, 7340032>> @@
     <<-1440, 2880, 480, 0>> :> <<13343409, 10536493, 7340032>> @@
     <<-1440, 2880, 480, 960>> :> <<13343409, 10536493, 7340032>> @@
     <<-1440, 2880, 480, 1920>> :> <<13343409, 10536493, 7340032>> @@
     <<-1440, 2880, 480, 2880>> :> <<13343409, 10536493, 7340032>> @@
     <<-1440, 2880, 960, -2880>> :> <<16679262, 587704, 12058624>>) @@
    (<<-1440, 2880, 960, -1920>> :> <<16679262, 587704, 12058624>> @@
     <<-1440, 2880, 960, -960>> :> <<16679262, 587704, 12058624>> @@
     <<-1440, 2880, 960, 0>> :> <<16679262, 587704, 12058624>> @@
     <<-1440, 2880, 960, 960>> :> <<16679262, 587704, 12058624>> @@
     <<-1440, 2880, 960, 1920>> :> <<16679262, 587704, 12058624>> @@
     <<-1440, 2880, 960, 2880>> :> <<16679262, 587704, 12058624>> @@
     <<-1440, 2880, 1440, -2880>> :> <<20015114, 7416132, 3145728>> @@
     <<-1440, 2880, 1440, -1920>> :> <<20015114, 7416132, 3145728>> @@
     <<-1440, 2880, 1440, -960>> :> <<20015114, 7416132, 3145728>> @@
     <<-1440, 2880, 1440, 0>> :> <<20015114, 7416132, 3145728>> @@
     <<-1440, 2880, 1440, 960>> :> <<20015114, 7416132, 3145728>> @@
     <<-1440, 2880, 1440, 1920>> :> <<20015114, 7416132, 3145728>> @@
     <<-1440, 2880, 1440, 2880>> :> <<20015114, 7416132, 3145728>> @@
     <<-1440, 2880, 0, 480>> :> <<10007557, 3708066, 1048576>> @@
     <<-1440, 2880, 160, 800>> :> <<11119508, 391803, 3145728>> @@
     <<-1440, 2880, 8, 0>> :> <<10063154, 12769721, 12058624>> @@
     <<-1440, 2880, 0, 720>> :> <<10007557, 3708066, 1048576>> @@
     <<-1440, 2880, 168, 804>> :> <<11175105, 9453458, 14155776>> @@
     <<-1440, 2880, 720, 1440>> :> <<15011335, 13950707, 2097152>> @@
     <<-1440, 2880, -480, -2400>> :> <<6671704, 13656854, 12320768>>) @@
    (<<-1440, 2880, 0, 240>> :> <<10007557, 3708066, 1048576>> @@
     <<-1440, 2880, 480, 480>> :> <<13343409, 10536493, 7340032>> @@
     <<-1440, 2880, -960, 2160>> :> <<3335852, 6828427, 6160384>> @@
     <<-1440, 2880, 160, 960>> :> <<11119508, 391803, 3145728>> @@
     <<-1440, 2880, 16, 0>> :> <<10118752, 5054161, 6815744>> @@
     <<-1440, 2880, 0, 16>> :> <<10007557, 3708066, 1048576>> @@
     <<-1440, 2880, 0, 32>> :> <<10007557, 3708066, 1048576>> @@
     <<-1440, 2880, 16, 16>> :> <<10118752, 5054161, 6815744>> @@
     <<-1440, 2880, 0, 160>> :> <<10007557, 3708066, 1048576>> @@
     <<-1440, 2880, 160, 0>> :> <<11119508, 391803, 3670016>> @@
     <<-1440, 2880, 160, 160>> :> <<11119508, 391803, 3670016>> @@
     <<-1440, 2880, 720, 720>> :> <<15011335, 13950707, 2097152>> @@
     <<-1440, 2880, -720, -1440>> :> <<5003778, 10242641, 1048576>> @@
     <<-1440, 2880, 720, -1440>> :> <<15011335, 13950707, 2097152>> @@
     <<-1440, 2880, -160, -960>> :> <<8895606, 7024328, 15728640>> @@
     <<-1440, 2880, 0, 1440>> :> <<10007557, 3708066, 1048576>> @@
     <<-1440, 2880, 0, -1440>> :> <<10007557, 3708066, 1048576>> @@
     <<-1440, 2880, 1, 1>> :> <<10014506, 15326533, 1048576>> @@
     <<-960, -2880, -1440, -2880>> :> <<3335852, 6828427, 6160384>> @@
     <<-960, -2880, -1440, -1920>> :> <<3335852, 6828427, 6160384>>) @@
    (<<-960, -2880, -1440, -960>> :> <<3335852, 6828427, 6422528>> @@
     <<-960, -2880, -1440, 0>> :> <<3335852, 6828427, 6422528>> @@
     <<-960, -2880, -1440, 960>> :> <<3335852, 6828427, 6422528>> @@
     <<-960, -2880, -1440, 1920>> :> <<3335852, 6828427, 6160384>> @@
     <<-960, -2880, -1440, 2880>> :> <<3335852, 6828427, 6160384>> @@
     <<-960, -2880, -960, -2880>> :> <<0, 0, 0>> @@
     <<-960, -2880, -960, -1920>> :> <<3219656, 4331757, 5636096>> @@
     <<-960, -2880, -960, -960>> :> <<5706288, 4756653, 9175040>> @@
     <<-960, -2880, -960, 0>> :> <<6671704, 13656854, 12845056>> @@
     <<-960, -2880, -960, 960>> :> <<5706288, 4756653, 9175040>> @@
     <<-960, -2880, -960, 1920>> :> <<3219656, 4331757, 6160384>> @@
     <<-960, -2880, -960, 2880>> :> <<0, 0, 219613, 6820436, 3645440>> @@
     <<-960, -2880, -480, -2880>> :> <<3335852, 6828427, 6029312>> @@
     <<-960, -2880, -480, -1920>> :> <<5503561, 9084414, 6553600>> @@
     <<-960, -2880, -480, -960>> :> <<8617183, 3515148, 1048576>> @@
     <<-960, -2880, -480, 0>> :> <<10007557, 3708066, 1572864>> @@
     <<-960, -2880, -480, 960>> :> <<8617183, 3515148, 1048576>> @@
     <<-960, -2880, -480, 1920>> :> <<5503561, 9084414, 7077888>> @@
     <<-960, -2880, -480, 2880>> :> <<3335852, 6828427, 6029312>> @@
     <<-960, -2880, 0, -2880>> :> <<6671704, 13656854, 12058624>>) @@
    (<<-960, -2880, 0, -1920>> :> <<8397729, 1542187, 6815744>> @@
     <<-960, -2880, 0, -960>> :> <<11617385, 5873944, 12582912>> @@
     <<-960, -2880, 0, 0>> :> <<13343409, 10536493, 7340032>> @@
     <<-960, -2880, 0, 960>> :> <<11617385, 5873944, 12582912>> @@
     <<-960, -2880, 0, 1920>> :> <<8397729, 1542187, 7340032>> @@
     <<-960, -2880, 0, 2880>> :> <<6671704, 13656854, 12058624>> @@
     <<-960, -2880, 480, -2880>> :> <<10007557, 3708066, 1048576>> @@
     <<-960, -2880, 480, -1920>> :> <<11397931, 3900984, 2621440>> @@
     <<-960, -2880, 480, -960>> :> <<14511552, 15108933, 13107200>> @@
     <<-960, -2880, 480, 0>> :> <<16679262, 587704, 13631488>> @@
     <<-960, -2880, 480, 960>> :> <<14511552, 15108933, 13107200>> @@
     <<-960, -2880, 480, 1920>> :> <<11397931, 3900984, 2621440>> @@
     <<-960, -2880, 480, 2880>> :> <<10007557, 3708066, 1048576>> @@
     <<-960, -2880, 960, -2880>> :> <<13343409, 10536493, 7340032>> @@
     <<-960, -2880, 960, -1920>> :> <<14308826, 2659478, 9961472>> @@
     <<-960, -2880, 960, -960>> :> <<16795458, 3084374, 14680064>> @@
     <<-960, -2880, 960, 0>> :> <<20015114, 7416132, 3145728>> @@
     <<-960, -2880, 960, 960>> :> <<16795458, 3084374, 14680064>> @@
     <<-960, -2880, 960, 1920>> :> <<14308826, 2659478, 9961472>> @@
     <<-960, -2880, 960, 2880>> :> <<13343409, 10536493, 7340032>>) @@
    (<<-960, -2880, 1440, -2880>> :> <<16679262, 587704, 12058624>> @@
     <<-960, -2880, 1440, -1920>> :> <<16679262, 587704, 12058624>> @@
     <<-960, -2880, 1440, -960>> :> <<16679262, 587704, 12058624>> @@
     <<-960, -2880, 1440, 0>> :> <<16679262, 587704, 12058624>> @@
     <<-960, -2880, 1440, 960>> :> <<16679262, 587704, 12058624>> @@
     <<-960, -2880, 1440, 1920>> :> <<16679262, 587704, 12058624>> @@
     <<-960, -2880, 1440, 2880>> :> <<16679262, 587704, 12058624>> @@
     <<-960, -2880, 0, 480>> :> <<12860701, 6086392, 14680064>> @@
     <<-960, -2880, 160, 800>> :> <<13102441, 3961711, 4718592>> @@
     <<-960, -2880, 8, 0>> :> <<13399007, 2820933, 2097152>> @@
     <<-960, -2880, 0, 720>> :> <<12309830, 5829382, 12582912>> @@
     <<-960, -2880, 168, 804>> :> <<13140624, 8163696, 1572864>> @@
     <<-960, -2880, 720, 1440>> :> <<14206421, 12867767, 13631488>> @@
     <<-960, -2880, -480, -2400>> :> <<4013895, 11036053, 10616832>> @@
     <<-960, -2880, 0, 240>> :> <<13218770, 6666553, 12058624>> @@
     <<-960, -2880, 480, 480>> :> <<16001218, 13157294, 9961472>> @@
     <<-960, -2880, -960, 2160>> :> <<2453207, 1944317, 11665408>> @@
     <<-960, -2880, 160, 960>> :> <<12605619, 12022025, 14680064>> @@
     <<-960, -2880, 16, 0>> :> <<13454604, 11882588, 12582912>> @@
     <<-960, -2880, 0, 16>> :> <<13342849, 7025992, 10485760>>) @@
    (<<-960, -2880, 0, 32>> :> <<13341169, 2218502, 16252928>> @@
     <<-960, -2880, 16, 16>> :> <<13454038, 13365827, 12582912>> @@
     <<-960, -2880, 0, 160>> :> <<13287668, 80208, 5767168>> @@
     <<-960, -2880, 160, 0>> :> <<14455360, 7220230, 9437184>> @@
     <<-960, -2880, 160, 160>> :> <<14393396, 15413682, 1048576>> @@
     <<-960, -2880, 720, 720>> :> <<16633006, 4757114, 10485760>> @@
     <<-960, -2880, -720, -1440>> :> <<5808692, 11325580, 6291456>> @@
     <<-960, -2880, 720, -1440>> :> <<14206421, 12867767, 13631488>> @@
     <<-960, -2880, -160, -960>> :> <<10618953, 14189813, 7340032>> @@
     <<-960, -2880, 0, 1440>> :> <<10007557, 3708066, 1572864>> @@
     <<-960, -2880, 0, -1440>> :> <<10007557, 3708066, 1048576>> @@
     <<-960, -2880, 1, 1>> :> <<13350357, 2193309, 1048576>> @@
     <<-960, -1920, -1440, -2880>> :> <<3335852, 6828427, 6160384>> @@
     <<-960, -1920, -1440, -1920>> :> <<3335852, 6828427, 6160384>> @@
     <<-960, -1920, -1440, -960>> :> <<3335852, 6828427, 6160384>> @@
     <<-960, -1920, -1440, 0>> :> <<3335852, 6828427, 6422528>> @@
     <<-960, -1920, -1440, 960>> :> <<3335852, 6828427, 6422528>> @@
     <<-960, -1920, -1440, 1920>> :> <<3335852, 6828427, 6422528>> @@
     <<-960, -1920, -1440, 2880>> :> <<3335852, 6828427, 6160384>> @@
     <<-960, -1920, -960, -2880>> :> <<3219656, 4331757, 5636096>>) @@
    (<<-960, -1920, -960, -1920>> :> <<0, 0, 0>> @@
     <<-960, -1920, -960, -960>> :> <<3219656, 4331757, 5373952>> @@
     <<-960, -1920, -960, 0>> :> <<5706288, 4756653, 8912896>> @@
     <<-960, -1920, -960, 960>> :> <<6671704, 13656854, 12845056>> @@
     <<-960, -1920, -960, 1920>> :> <<5706288, 4756653, 9175040>> @@
     <<-960, -1920, -960, 2880>> :> <<3219656, 4331757, 6160384>> @@
     <<-960, -1920, -480, -2880>> :> <<5503561, 9084414, 6553600>> @@
     <<-960, -1920, -480, -1920>> :> <<3335852, 6828427, 6029312>> @@
     <<-960, -1920, -480, -960>> :> <<5503561, 9084414, 6553600>> @@
     <<-960, -1920, -480, 0>> :> <<8617183, 3515148, 524288>> @@
     <<-960, -1920, -480, 960>> :> <<10007557, 3708066, 1572864>> @@
     <<-960, -1920, -480, 1920>> :> <<8617183, 3515148, 1048576>> @@
     <<-960, -1920, -480, 2880>> :> <<5503561, 9084414, 7077888>> @@
     <<-960, -1920, 0, -2880>> :> <<8397729, 1542187, 6815744>> @@
     <<-960, -1920, 0, -1920>> :> <<6671704, 13656854, 12058624>> @@
     <<-960, -1920, 0, -960>> :> <<8397729, 1542187, 6815744>> @@
     <<-960, -1920, 0, 0>> :> <<11617385, 5873944, 12582912>> @@
     <<-960, -1920, 0, 960>> :> <<13343409, 10536493, 7340032>> @@
     <<-960, -1920, 0, 1920>> :> <<11617385, 5873944, 12582912>> @@
     <<-960, -1920, 0, 2880>> :> <<8397729, 1542187, 7340032>>) @@
    (<<-960, -1920, 480, -2880>> :> <<11397931, 3900984, 2621440>> @@
     <<-960, -1920, 480, -1920>> :> <<10007557, 3708066, 1048576>> @@
     <<-960, -1920, 480, -960>> :> <<11397931, 3900984, 1572864>> @@
     <<-960, -1920, 480, 0>> :> <<14511552, 15108933, 13107200>> @@
     <<-960, -1920, 480, 960>> :> <<16679262, 587704, 13631488>> @@
     <<-960, -1920, 480, 1920>> :> <<14511552, 15108933, 13107200>> @@
     <<-960, -1920, 480, 2880>> :> <<11397931, 3900984, 2621440>> @@
     <<-960, -1920, 960, -2880>> :> <<14308826, 2659478, 9961472>> @@
     <<-960, -1920, 960, -1920>> :> <<13343409, 10536493, 7340032>> @@
     <<-960, -1920, 960, -960>> :> <<14308826, 2659478, 9961472>> @@
     <<-960, -1920, 960, 0>> :> <<16795458, 3084374, 14680064>> @@
     <<-960, -1920, 960, 960>> :> <<20015114, 7416132, 3145728>> @@
     <<-960, -1920, 960, 1920>> :> <<16795458, 3084374, 14680064>> @@
     <<-960, -1920, 960, 2880>> :> <<14308826, 2659478, 9961472>> @@
     <<-960, -1920, 1440, -2880>> :> <<16679262, 587704, 12058624>> @@
     <<-960, -1920, 1440, -1920>> :> <<16679262, 587704, 12058624>> @@
     <<-960, -1920, 1440, -960>> :> <<16679262, 587704, 12058624>> @@
     <<-960, -1920, 1440, 0>> :> <<16679262, 587704, 12058624>> @@
     <<-960, -1920, 1440, 960>> :> <<16679262, 587704, 12058624>> @@
     <<-960, -1920, 1440, 1920>> :> <<16679262, 587704, 12058624>>) @@
    (<<-960, -1920, 1440, 2880>> :> <<16679262, 587704, 12058624>> @@
     <<-960, -1920, 0, 480>> :> <<12860701, 6086392, 14155776>> @@
     <<-960, -1920, 160, 800>> :> <<14393396, 15413682, 1048576>> @@
     <<-960, -1920, 8, 0>> :> <<11667100, 10442593, 7864320>> @@
     <<-960, -1920, 0, 720>> :> <<13218770, 6666553, 12058624>> @@
     <<-960, -1920, 168, 804>> :> <<14451696, 16023108, 8388608>> @@
     <<-960, -1920, 720, 1440>> :> <<17426078, 422309, 2097152>> @@
     <<-960, -1920, -480, -2400>> :> <<4013895, 11036053, 10747904>> @@
     <<-960, -1920, 0, 240>> :> <<12309830, 5829382, 12582912>> @@
     <<-960, -1920, 480, 480>> :> <<16001218, 13157294, 8388608>> @@
     <<-960, -1920, -960, 2160>> :> <<5197388, 1694878, 14942208>> @@
     <<-960, -1920, 160, 960>> :> <<14455360, 7220230, 9437184>> @@
     <<-960, -1920, 16, 0>> :> <<11716789, 15494883, 8912896>> @@
     <<-960, -1920, 0, 16>> :> <<11666910, 7336242, 8912896>> @@
     <<-960, -1920, 0, 32>> :> <<11716020, 873243, 13107200>> @@
     <<-960, -1920, 16, 16>> :> <<11766517, 4757347, 0>> @@
     <<-960, -1920, 0, 160>> :> <<12092157, 12940336, 6291456>> @@
     <<-960, -1920, 160, 0>> :> <<12605619, 12022025, 13631488>> @@
     <<-960, -1920, 160, 160>> :> <<13102441, 3961711, 4194304>> @@
     <<-960, -1920, 720, 720>> :> <<18072632, 4400949, 7340032>>) @@
    (<<-960, -1920, -720, -1440>> :> <<2589036, 6993823, 655360>> @@
     <<-960, -1920, 720, -1440>> :> <<11990114, 13081720, 15204352>> @@
     <<-960, -1920, -160, -960>> :> <<7409494, 12171322, 4980736>> @@
     <<-960, -1920, 0, 1440>> :> <<12860701, 6086392, 14680064>> @@
     <<-960, -1920, 0, -1440>> :> <<7154413, 1329739, 5505024>> @@
     <<-960, -1920, 1, 1>> :> <<11626709, 2430396, 5767168>> @@
     <<-960, -960, -1440, -2880>> :> <<3335852, 6828427, 6422528>> @@
     <<-960, -960, -1440, -1920>> :> <<3335852, 6828427, 6160384>> @@
     <<-960, -960, -1440, -960>> :> <<3335852, 6828427, 6160384>> @@
     <<-960, -960, -1440, 0>> :> <<3335852, 6828427, 6160384>> @@
     <<-960, -960, -1440, 960>> :> <<3335852, 6828427, 6422528>> @@
     <<-960, -960, -1440, 1920>> :> <<3335852, 6828427, 6422528>> @@
     <<-960, -960, -1440, 2880>> :> <<3335852, 6828427, 6422528>> @@
     <<-960, -960, -960, -2880>> :> <<5706288, 4756653, 9175040>> @@
     <<-960, -960, -960, -1920>> :> <<3219656, 4331757, 5373952>> @@
     <<-960, -960, -960, -960>> :> <<0, 0, 0>> @@
     <<-960, -960, -960, 0>> :> <<3219656, 4331757, 5373952>> @@
     <<-960, -960, -960, 960>> :> <<5706288, 4756653, 8912896>> @@
     <<-960, -960, -960, 1920>> :> <<6671704, 13656854, 12845056>> @@
     <<-960, -960, -960, 2880>> :> <<5706288, 4756653, 9175040>>) @@
    (<<-960, -960, -480, -2880>> :> <<8617183, 3515148, 1048576>> @@
     <<-960, -960, -480, -1920>> :> <<5503561, 9084414, 6553600>> @@
     <<-960, -960, -480, -960>> :> <<3335852, 6828427, 6029312>> @@
     <<-960, -960, -480, 0>> :> <<5503561, 9084414, 6553600>> @@
     <<-960, -960, -480, 960>> :> <<8617183, 3515148, 524288>> @@
     <<-960, -960, -480, 1920>> :> <<10007557, 3708066, 1572864>> @@
     <<-960, -960, -480, 2880>> :> <<8617183, 3515148, 1048576>> @@
     <<-960, -960, 0, -2880>> :> <<11617385, 5873944, 12582912>> @@
     <<-960, -960, 0, -1920>> :> <<8397729, 1542187, 6815744>> @@
     <<-960, -960, 0, -960>> :> <<6671704, 13656854, 12058624>> @@
     <<-960, -960, 0, 0>> :> <<8397729, 1542187, 6815744>> @@
     <<-960, -960, 0, 960>> :> <<11617385, 5873944, 12582912>> @@
     <<-960, -960, 0, 1920>> :> <<13343409, 10536493, 7340032>> @@
     <<-960, -960, 0, 2880>> :> <<11617385, 5873944, 12582912>> @@
     <<-960, -960, 480, -2880>> :> <<14511552, 15108933, 13107200>> @@
     <<-960, -960, 480, -1920>> :> <<11397931, 3900984, 1572864>> @@
     <<-960, -960, 480, -960>> :> <<10007557, 3708066, 1048576>> @@
     <<-960, -960, 480, 0>> :> <<11397931, 3900984, 1572864>> @@
     <<-960, -960, 480, 960>> :> <<14511552, 15108933, 13107200>> @@
     <<-960, -960, 480, 1920>> :> <<16679262, 587704, 13631488>>) @@
    (<<-960, -960, 480, 2880>> :> <<14511552, 15108933, 13107200>> @@
     <<-960, -960, 960, -2880>> :> <<16795458, 3084374, 14680064>> @@
     <<-960, -960, 960, -1920>> :> <<14308826, 2659478, 9961472>> @@
     <<-960, -960, 960, -960>> :> <<13343409, 10536493, 7340032>> @@
     <<-960, -960, 960, 0>> :> <<14308826, 2659478, 9961472>> @@
     <<-960, -960, 960, 960>> :> <<16795458, 3084374, 14680064>> @@
     <<-960, -960, 960, 1920>> :> <<20015114, 7416132, 3145728>> @@
     <<-960, -960, 960, 2880>> :> <<16795458, 3084374, 14680064>> @@
     <<-960, -960, 1440, -2880>> :> <<16679262, 587704, 12058624>> @@
     <<-960, -960, 1440, -1920>> :> <<16679262, 587704, 12058624>> @@
     <<-960, -960, 1440, -960>> :> <<16679262, 587704, 12058624>> @@
     <<-960, -960, 1440, 0>> :> <<16679262, 587704, 12058624>> @@
     <<-960, -960, 1440, 960>> :> <<16679262, 587704, 12058624>> @@
     <<-960, -960, 1440, 1920>> :> <<16679262, 587704, 12058624>> @@
     <<-960, -960, 1440, 2880>> :> <<16679262, 587704, 12058624>> @@
     <<-960, -960, 0, 480>> :> <<10007557, 3708066, 1048576>> @@
     <<-960, -960, 160, 800>> :> <<12074686, 7822800, 6291456>> @@
     <<-960, -960, 8, 0>> :> <<8447469, 7044858, 14680064>> @@
     <<-960, -960, 0, 720>> :> <<10834345, 2546393, 13631488>> @@
     <<-960, -960, 168, 804>> :> <<12136530, 9475434, 9961472>>) @@
    (<<-960, -960, 720, 1440>> :> <<17426078, 422309, 2097152>> @@
     <<-960, -960, -480, -2400>> :> <<7154413, 1329739, 6029312>> @@
     <<-960, -960, 0, 240>> :> <<9180769, 4869738, 5767168>> @@
     <<-960, -960, 480, 480>> :> <<12860701, 6086392, 14155776>> @@
     <<-960, -960, -960, 2160>> :> <<6608857, 4166959, 3932160>> @@
     <<-960, -960, 160, 960>> :> <<12605619, 12022025, 13631488>> @@
     <<-960, -960, 16, 0>> :> <<8497233, 15116929, 4718592>> @@
     <<-960, -960, 0, 16>> :> <<8447655, 1017950, 1048576>> @@
     <<-960, -960, 0, 32>> :> <<8497967, 7010350, 5767168>> @@
     <<-960, -960, 16, 16>> :> <<8546961, 3901280, 11010048>> @@
     <<-960, -960, 0, 160>> :> <<8912669, 1477140, 15728640>> @@
     <<-960, -960, 160, 0>> :> <<9396160, 10003534, 12058624>> @@
     <<-960, -960, 160, 160>> :> <<9892692, 7863238, 5767168>> @@
     <<-960, -960, 720, 720>> :> <<14982317, 11598032, 6815744>> @@
     <<-960, -960, -720, -1440>> :> <<2589036, 6993823, 786432>> @@
     <<-960, -960, 720, -1440>> :> <<11990114, 13081720, 16252928>> @@
     <<-960, -960, -160, -960>> :> <<5559754, 195901, 9961472>> @@
     <<-960, -960, 0, 1440>> :> <<12860701, 6086392, 14155776>> @@
     <<-960, -960, 0, -1440>> :> <<7154413, 1329739, 5505024>> @@
     <<-960, -960, 1, 1>> :> <<8407053, 4666546, 13107200>>) @@
    (<<-960, 0, -1440, -2880>> :> <<3335852, 6828427, 6422528>> @@
     <<-960, 0, -1440, -1920>> :> <<3335852, 6828427, 6422528>> @@
     <<-960, 0, -1440, -960>> :> <<3335852, 6828427, 6160384>> @@
     <<-960, 0, -1440, 0>> :> <<3335852, 6828427, 6160384>> @@
     <<-960, 0, -1440, 960>> :> <<3335852, 6828427, 6160384>> @@
     <<-960, 0, -1440, 1920>> :> <<3335852, 6828427, 6422528>> @@
     <<-960, 0, -1440, 2880>> :> <<3335852, 6828427, 6422528>> @@
     <<-960, 0, -960, -2880>> :> <<6671704, 13656854, 12845056>> @@
     <<-960, 0, -960, -1920>> :> <<5706288, 4756653, 8912896>> @@
     <<-960, 0, -960, -960>> :> <<3219656, 4331757, 5373952>> @@
     <<-960, 0, -960, 0>> :> <<0, 0, 0>> @@
     <<-960, 0, -960, 960>> :> <<3219656, 4331757, 5373952>> @@
     <<-960, 0, -960, 1920>> :> <<5706288, 4756653, 8912896>> @@
     <<-960, 0, -960, 2880>> :> <<6671704, 13656854, 12845056>> @@
     <<-960, 0, -480, -2880>> :> <<10007557, 3708066, 1572864>> @@
     <<-960, 0, -480, -1920>> :> <<8617183, 3515148, 524288>> @@
     <<-960, 0, -480, -960>> :> <<5503561, 9084414, 6553600>> @@
     <<-960, 0, -480, 0>> :> <<3335852, 6828427, 6029312>> @@
     <<-960, 0, -480, 960>> :> <<5503561, 9084414, 6553600>> @@
     <<-960, 0, -480, 1920>> :> <<8617183, 3515148, 524288>>) @@
    (<<-960, 0, -480, 2880>> :> <<10007557, 3708066, 1572864>> @@
     <<-960, 0, 0, -2880>> :> <<13343409, 10536493, 7340032>> @@
     <<-960, 0, 0, -1920>> :> <<11617385, 5873944, 12582912>> @@
     <<-960, 0, 0, -960>> :> <<8397729, 1542187, 6815744>> @@
     <<-960, 0, 0, 0>> :> <<6671704, 13656854, 12058624>> @@
     <<-960, 0, 0, 960>> :> <<8397729, 1542187, 6815744>> @@
     <<-960, 0, 0, 1920>> :> <<11617385, 5873944, 12582912>> @@
     <<-960, 0, 0, 2880>> :> <<13343409, 10536493, 7340032>> @@
     <<-960, 0, 480, -2880>> :> <<16679262, 587704, 13631488>> @@
     <<-960, 0, 480, -1920>> :> <<14511552, 15108933, 13107200>> @@
     <<-960, 0, 480, -960>> :> <<11397931, 3900984, 1572864>> @@
     <<-960, 0, 480, 0>> :> <<10007557, 3708066, 1048576>> @@
     <<-960, 0, 480, 960>> :> <<11397931, 3900984, 1572864>> @@
     <<-960, 0, 480, 1920>> :> <<14511552, 15108933, 13107200>> @@
     <<-960, 0, 480, 2880>> :> <<16679262, 587704, 13631488>> @@
     <<-960, 0, 960, -2880>> :> <<20015114, 7416132, 3145728>> @@
     <<-960, 0, 960, -1920>> :> <<16795458, 3084374, 14680064>> @@
     <<-960, 0, 960, -960>> :> <<14308826, 2659478, 9961472>> @@
     <<-960, 0, 960, 0>> :> <<13343409, 10536493, 7340032>> @@
     <<-960, 0, 960, 960>> :> <<14308826, 2659478, 9961472>>) @@
    (<<-960, 0, 960, 1920>> :> <<16795458, 3084374, 14680064>> @@
     <<-960, 0, 960, 2880>> :> <<20015114, 7416132, 3145728>> @@
     <<-960, 0, 1440, -2880>> :> <<16679262, 587704, 12058624>> @@
     <<-960, 0, 1440, -1920>> :> <<16679262, 587704, 12058624>> @@
     <<-960, 0, 1440, -960>> :> <<16679262, 587704, 12058624>> @@
     <<-960, 0, 1440, 0>> :> <<16679262, 587704, 12058624>> @@
     <<-960, 0, 1440, 960>> :> <<16679262, 587704, 12058624>> @@
     <<-960, 0, 1440, 1920>> :> <<16679262, 587704, 12058624>> @@
     <<-960, 0, 1440, 2880>> :> <<16679262, 587704, 12058624>> @@
     <<-960, 0, 0, 480>> :> <<7154413, 1329739, 5505024>> @@
     <<-960, 0, 160, 800>> :> <<8944228, 7158510, 0>> @@
     <<-960, 0, 8, 0>> :> <<6727302, 5941294, 6029312>> @@
     <<-960, 0, 0, 720>> :> <<7705284, 1586749, 7077888>> @@
     <<-960, 0, 168, 804>> :> <<9006087, 6271712, 9961472>> @@
     <<-960, 0, 720, 1440>> :> <<14206421, 12867767, 13631488>> @@
     <<-960, 0, -480, -2400>> :> <<9637750, 2672569, 1048576>> @@
     <<-960, 0, 0, 240>> :> <<6796344, 749578, 8126464>> @@
     <<-960, 0, 480, 480>> :> <<10377364, 4743563, 2097152>> @@
     <<-960, 0, -960, 2160>> :> <<6118475, 8440667, 12845056>> @@
     <<-960, 0, 160, 960>> :> <<9396160, 10003534, 12058624>>) @@
    (<<-960, 0, 16, 0>> :> <<6782899, 15002950, 524288>> @@
     <<-960, 0, 0, 16>> :> <<6672265, 390139, 8650752>> @@
     <<-960, 0, 0, 32>> :> <<6673945, 5197629, 3407872>> @@
     <<-960, 0, 16, 16>> :> <<6783454, 8638559, 16515072>> @@
     <<-960, 0, 0, 160>> :> <<6727446, 7335923, 13369344>> @@
     <<-960, 0, 160, 0>> :> <<7783655, 10340591, 13893632>> @@
     <<-960, 0, 160, 160>> :> <<7834301, 5363889, 11534336>> @@
     <<-960, 0, 720, 720>> :> <<12370004, 3971045, 5767168>> @@
     <<-960, 0, -720, -1440>> :> <<5808692, 11325580, 6291456>> @@
     <<-960, 0, 720, -1440>> :> <<14206421, 12867767, 13631488>> @@
     <<-960, 0, -160, -960>> :> <<7409494, 12171322, 4980736>> @@
     <<-960, 0, 0, 1440>> :> <<10007557, 3708066, 1048576>> @@
     <<-960, 0, 0, -1440>> :> <<10007557, 3708066, 1048576>> @@
     <<-960, 0, 1, 1>> :> <<6678656, 11636294, 7602176>> @@
     <<-960, 960, -1440, -2880>> :> <<3335852, 6828427, 6422528>> @@
     <<-960, 960, -1440, -1920>> :> <<3335852, 6828427, 6422528>> @@
     <<-960, 960, -1440, -960>> :> <<3335852, 6828427, 6422528>> @@
     <<-960, 960, -1440, 0>> :> <<3335852, 6828427, 6160384>> @@
     <<-960, 960, -1440, 960>> :> <<3335852, 6828427, 6160384>> @@
     <<-960, 960, -1440, 1920>> :> <<3335852, 6828427, 6160384>>) @@
    (<<-960, 960, -1440, 2880>> :> <<3335852, 6828427, 6422528>> @@
     <<-960, 960, -960, -2880>> :> <<5706288, 4756653, 9175040>> @@
     <<-960, 960, -960, -1920>> :> <<6671704, 13656854, 12845056>> @@
     <<-960, 960, -960, -960>> :> <<5706288, 4756653, 8912896>> @@
     <<-960, 960, -960, 0>> :> <<3219656, 4331757, 5373952>> @@
     <<-960, 960, -960, 960>> :> <<0, 0, 0>> @@
     <<-960, 960, -960, 1920>> :> <<3219656, 4331757, 5373952>> @@
     <<-960, 960, -960, 2880>> :> <<5706288, 4756653, 9175040>> @@
     <<-960, 960, -480, -2880>> :> <<8617183, 3515148, 1048576>> @@
     <<-960, 960, -480, -1920>> :> <<10007557, 3708066, 1572864>> @@
     <<-960, 960, -480, -960>> :> <<8617183, 3515148, 524288>> @@
     <<-960, 960, -480, 0>> :> <<5503561, 9084414, 6553600>> @@
     <<-960, 960, -480, 960>> :> <<3335852, 6828427, 6029312>> @@
     <<-960, 960, -480, 1920>> :> <<5503561, 9084414, 6553600>> @@
     <<-960, 960, -480, 2880>> :> <<8617183, 3515148, 1048576>> @@
     <<-960, 960, 0, -2880>> :> <<11617385, 5873944, 12582912>> @@
     <<-960, 960, 0, -1920>> :> <<13343409, 10536493, 7340032>> @@
     <<-960, 960, 0, -960>> :> <<11617385, 5873944, 12582912>> @@
     <<-960, 960, 0, 0>> :> <<8397729, 1542187, 6815744>> @@
     <<-960, 960, 0, 960>> :> <<6671704, 13656854, 12058624>>) @@
    (<<-960, 960, 0, 1920>> :> <<8397729, 1542187, 6815744>> @@
     <<-960, 960, 0, 2880>> :> <<11617385, 5873944, 12582912>> @@
     <<-960, 960, 480, -2880>> :> <<14511552, 15108933, 13107200>> @@
     <<-960, 960, 480, -1920>> :> <<16679262, 587704, 13631488>> @@
     <<-960, 960, 480, -960>> :> <<14511552, 15108933, 13107200>> @@
     <<-960, 960, 480, 0>> :> <<11397931, 3900984, 1572864>> @@
     <<-960, 960, 480, 960>> :> <<10007557, 3708066, 1048576>> @@
     <<-960, 960, 480, 1920>> :> <<11397931, 3900984, 1572864>> @@
     <<-960, 960, 480, 2880>> :> <<14511552, 15108933, 13107200>> @@
     <<-960, 960, 960, -2880>> :> <<16795458, 3084374, 14680064>> @@
     <<-960, 960, 960, -1920>> :> <<20015114, 7416132, 3145728>> @@
     <<-960, 960, 960, -960>> :> <<16795458, 3084374, 14680064>> @@
     <<-960, 960, 960, 0>> :> <<14308826, 2659478, 9961472>> @@
     <<-960, 960, 960, 960>> :> <<13343409, 10536493, 7340032>> @@
     <<-960, 960, 960, 1920>> :> <<14308826, 2659478, 9961472>> @@
     <<-960, 960, 960, 2880>> :> <<16795458, 3084374, 14680064>> @@
     <<-960, 960, 1440, -2880>> :> <<16679262, 587704, 12058624>> @@
     <<-960, 960, 1440, -1920>> :> <<16679262, 587704, 12058624>> @@
     <<-960, 960, 1440, -960>> :> <<16679262, 587704, 12058624>> @@
     <<-960, 960, 1440, 0>> :> <<16679262, 587704, 12058624>>) @@
    (<<-960, 960, 1440, 960>> :> <<16679262, 587704, 12058624>> @@
     <<-960, 960, 1440, 1920>> :> <<16679262, 587704, 12058624>> @@
     <<-960, 960, 1440, 2880>> :> <<16679262, 587704, 12058624>> @@
     <<-960, 960, 0, 480>> :> <<7154413, 1329739, 5505024>> @@
     <<-960, 960, 160, 800>> :> <<7834301, 5363889, 11534336>> @@
     <<-960, 960, 8, 0>> :> <<8447469, 7044858, 14680064>> @@
     <<-960, 960, 0, 720>> :> <<6796344, 749578, 8126464>> @@
     <<-960, 960, 168, 804>> :> <<7887183, 6389523, 5505024>> @@
     <<-960, 960, 720, 1440>> :> <<11990114, 13081720, 16252928>> @@
     <<-960, 960, -480, -2400>> :> <<9637750, 2672569, 1048576>> @@
     <<-960, 960, 0, 240>> :> <<7705284, 1586749, 7077888>> @@
     <<-960, 960, 480, 480>> :> <<10377364, 4743563, 2097152>> @@
     <<-960, 960, -960, 2160>> :> <<3940956, 670016, 4587520>> @@
     <<-960, 960, 160, 960>> :> <<7783655, 10340591, 13893632>> @@
     <<-960, 960, 16, 0>> :> <<8497233, 15116929, 4718592>> @@
     <<-960, 960, 0, 16>> :> <<8348204, 79889, 9961472>> @@
     <<-960, 960, 0, 32>> :> <<8299094, 6542888, 5767168>> @@
     <<-960, 960, 16, 16>> :> <<8447912, 10418009, 13107200>> @@
     <<-960, 960, 0, 160>> :> <<7922956, 11253011, 12582912>> @@
     <<-960, 960, 160, 0>> :> <<9396160, 10003534, 12058624>>) @@
    (<<-960, 960, 160, 160>> :> <<8944228, 7158510, 0>> @@
     <<-960, 960, 720, 720>> :> <<11755078, 382339, 5767168>> @@
     <<-960, 960, -720, -1440>> :> <<8024999, 11111627, 4194304>> @@
     <<-960, 960, 720, -1440>> :> <<17426078, 422309, 2097152>> @@
     <<-960, 960, -160, -960>> :> <<10618953, 14189813, 6815744>> @@
     <<-960, 960, 0, 1440>> :> <<7154413, 1329739, 5505024>> @@
     <<-960, 960, 0, -1440>> :> <<12860701, 6086392, 14155776>> @@
     <<-960, 960, 1, 1>> :> <<8400838, 14288867, 11534336>> @@
     <<-960, 1920, -1440, -2880>> :> <<3335852, 6828427, 6160384>> @@
     <<-960, 1920, -1440, -1920>> :> <<3335852, 6828427, 6422528>> @@
     <<-960, 1920, -1440, -960>> :> <<3335852, 6828427, 6422528>> @@
     <<-960, 1920, -1440, 0>> :> <<3335852, 6828427, 6422528>> @@
     <<-960, 1920, -1440, 960>> :> <<3335852, 6828427, 6160384>> @@
     <<-960, 1920, -1440, 1920>> :> <<3335852, 6828427, 6160384>> @@
     <<-960, 1920, -1440, 2880>> :> <<3335852, 6828427, 6160384>> @@
     <<-960, 1920, -960, -2880>> :> <<3219656, 4331757, 6160384>> @@
     <<-960, 1920, -960, -1920>> :> <<5706288, 4756653, 9175040>> @@
     <<-960, 1920, -960, -960>> :> <<6671704, 13656854, 12845056>> @@
     <<-960, 1920, -960, 0>> :> <<5706288, 4756653, 8912896>> @@
     <<-960, 1920, -960, 960>> :> <<3219656, 4331757, 5373952>>) @@
    (<<-960, 1920, -960, 1920>> :> <<0, 0, 0>> @@
     <<-960, 1920, -960, 2880>> :> <<3219656, 4331757, 5636096>> @@
     <<-960, 1920, -480, -2880>> :> <<5503561, 9084414, 7077888>> @@
     <<-960, 1920, -480, -1920>> :> <<8617183, 3515148, 1048576>> @@
     <<-960, 1920, -480, -960>> :> <<10007557, 3708066, 1572864>> @@
     <<-960, 1920, -480, 0>> :> <<8617183, 3515148, 524288>> @@
     <<-960, 1920, -480, 960>> :> <<5503561, 9084414, 6553600>> @@
     <<-960, 1920, -480, 1920>> :> <<3335852, 6828427, 6029312>> @@
     <<-960, 1920, -480, 2880>> :> <<5503561, 9084414, 6553600>> @@
     <<-960, 1920, 0, -2880>> :> <<8397729, 1542187, 7340032>> @@
     <<-960, 1920, 0, -1920>> :> <<11617385, 5873944, 12582912>> @@
     <<-960, 1920, 0, -960>> :> <<13343409, 10536493, 7340032>> @@
     <<-960, 1920, 0, 0>> :> <<11617385, 5873944, 12582912>> @@
     <<-960, 1920, 0, 960>> :> <<8397729, 1542187, 6815744>> @@
     <<-960, 1920, 0, 1920>> :> <<6671704, 13656854, 12058624>> @@
     <<-960, 1920, 0, 2880>> :> <<8397729, 1542187, 6815744>> @@
     <<-960, 1920, 480, -2880>> :> <<11397931, 3900984, 2621440>> @@
     <<-960, 1920, 480, -1920>> :> <<14511552, 15108933, 13107200>> @@
     <<-960, 1920, 480, -960>> :> <<16679262, 587704, 13631488>> @@
     <<-960, 1920, 480, 0>> :> <<14511552, 15108933, 13107200>>) @@
    (<<-960, 1920, 480, 960>> :> <<11397931, 3900984, 1572864>> @@
     <<-960, 1920, 480, 1920>> :> <<10007557, 3708066, 1048576>> @@
     <<-960, 1920, 480, 2880>> :> <<11397931, 3900984, 2621440>> @@
     <<-960, 1920, 960, -2880>> :> <<14308826, 2659478, 9961472>> @@
     <<-960, 1920, 960, -1920>> :> <<16795458, 3084374, 14680064>> @@
     <<-960, 1920, 960, -960>> :> <<20015114, 7416132, 3145728>> @@
     <<-960, 1920, 960, 0>> :> <<16795458, 3084374, 14680064>> @@
     <<-960, 1920, 960, 960>> :> <<14308826, 2659478, 9961472>> @@
     <<-960, 1920, 960, 1920>> :> <<13343409, 10536493, 7340032>> @@
     <<-960, 1920, 960, 2880>> :> <<14308826, 2659478, 9961472>> @@
     <<-960, 1920, 1440, -2880>> :> <<16679262, 587704, 12058624>> @@
     <<-960, 1920, 1440, -1920>> :> <<16679262, 587704, 12058624>> @@
     <<-960, 1920, 1440, -960>> :> <<16679262, 587704, 12058624>> @@
     <<-960, 1920, 1440, 0>> :> <<16679262, 587704, 12058624>> @@
     <<-960, 1920, 1440, 960>> :> <<16679262, 587704, 12058624>> @@
     <<-960, 1920, 1440, 1920>> :> <<16679262, 587704, 12058624>> @@
     <<-960, 1920, 1440, 2880>> :> <<16679262, 587704, 12058624>> @@
     <<-960, 1920, 0, 480>> :> <<10007557, 3708066, 1048576>> @@
     <<-960, 1920, 160, 800>> :> <<9892692, 7863238, 5767168>> @@
     <<-960, 1920, 8, 0>> :> <<11667100, 10442593, 7864320>>) @@
    (<<-960, 1920, 0, 720>> :> <<9180769, 4869738, 5767168>> @@
     <<-960, 1920, 168, 804>> :> <<9928936, 10733248, 3670016>> @@
     <<-960, 1920, 720, 1440>> :> <<11990114, 13081720, 15204352>> @@
     <<-960, 1920, -480, -2400>> :> <<7154413, 1329739, 6029312>> @@
     <<-960, 1920, 0, 240>> :> <<10834345, 2546393, 13631488>> @@
     <<-960, 1920, 480, 480>> :> <<12860701, 6086392, 14155776>> @@
     <<-960, 1920, -960, 2160>> :> <<832174, 16390635, 163840>> @@
     <<-960, 1920, 160, 960>> :> <<9396160, 10003534, 12058624>> @@
     <<-960, 1920, 16, 0>> :> <<11716789, 15494883, 8912896>> @@
     <<-960, 1920, 0, 16>> :> <<11567459, 6398182, 2097152>> @@
     <<-960, 1920, 0, 32>> :> <<11517147, 405781, 14155776>> @@
     <<-960, 1920, 16, 16>> :> <<11666667, 245251, 524288>> @@
     <<-960, 1920, 0, 160>> :> <<11102445, 5938991, 3145728>> @@
     <<-960, 1920, 160, 0>> :> <<12605619, 12022025, 13631488>> @@
     <<-960, 1920, 160, 160>> :> <<12074686, 7822800, 6291456>> @@
     <<-960, 1920, 720, 720>> :> <<13498011, 5739171, 7864320>> @@
     <<-960, 1920, -720, -1440>> :> <<8024999, 11111627, 4194304>> @@
     <<-960, 1920, 720, -1440>> :> <<17426078, 422309, 2097152>> @@
     <<-960, 1920, -160, -960>> :> <<12231458, 13852756, 5242880>> @@
     <<-960, 1920, 0, 1440>> :> <<7154413, 1329739, 5505024>>) @@
    (<<-960, 1920, 0, -1440>> :> <<12860701, 6086392, 14680064>> @@
     <<-960, 1920, 1, 1>> :> <<11620491, 9841102, 13107200>> @@
     <<-960, 2880, -1440, -2880>> :> <<3335852, 6828427, 6160384>> @@
     <<-960, 2880, -1440, -1920>> :> <<3335852, 6828427, 6160384>> @@
     <<-960, 2880, -1440, -960>> :> <<3335852, 6828427, 6422528>> @@
     <<-960, 2880, -1440, 0>> :> <<3335852, 6828427, 6422528>> @@
     <<-960, 2880, -1440, 960>> :> <<3335852, 6828427, 6422528>> @@
     <<-960, 2880, -1440, 1920>> :> <<3335852, 6828427, 6160384>> @@
     <<-960, 2880, -1440, 2880>> :> <<3335852, 6828427, 6160384>> @@
     <<-960, 2880, -960, -2880>> :> <<0, 0, 219613, 6820436, 3645440>> @@
     <<-960, 2880, -960, -1920>> :> <<3219656, 4331757, 6160384>> @@
     <<-960, 2880, -960, -960>> :> <<5706288, 4756653, 9175040>> @@
     <<-960, 2880, -960, 0>> :> <<6671704, 13656854, 12845056>> @@
     <<-960, 2880, -960, 960>> :> <<5706288, 4756653, 9175040>> @@
     <<-960, 2880, -960, 1920>> :> <<3219656, 4331757, 5636096>> @@
     <<-960, 2880, -960, 2880>> :> <<0, 0, 0>> @@
     <<-960, 2880, -480, -2880>> :> <<3335852, 6828427, 6029312>> @@
     <<-960, 2880, -480, -1920>> :> <<5503561, 9084414, 7077888>> @@
     <<-960, 2880, -480, -960>> :> <<8617183, 3515148, 1048576>> @@
     <<-960, 2880, -480, 0>> :> <<10007557, 3708066, 1572864>>) @@
    (<<-960, 2880, -480, 960>> :> <<8617183, 3515148, 1048576>> @@
     <<-960, 2880, -480, 1920>> :> <<5503561, 9084414, 6553600>> @@
     <<-960, 2880, -480, 2880>> :> <<3335852, 6828427, 6029312>> @@
     <<-960, 2880, 0, -2880>> :> <<6671704, 13656854, 12058624>> @@
     <<-960, 2880, 0, -1920>> :> <<8397729, 1542187, 7340032>> @@
     <<-960, 2880, 0, -960>> :> <<11617385, 5873944, 12582912>> @@
     <<-960, 2880, 0, 0>> :> <<13343409, 10536493, 7340032>> @@
     <<-960, 2880, 0, 960>> :> <<11617385, 5873944, 12582912>> @@
     <<-960, 2880, 0, 1920>> :> <<8397729, 1542187, 6815744>> @@
     <<-960, 2880, 0, 2880>> :> <<6671704, 13656854, 12058624>> @@
     <<-960, 2880, 480, -2880>> :> <<10007557, 3708066, 1048576>> @@
     <<-960, 2880, 480, -1920>> :> <<11397931, 3900984, 2621440>> @@
     <<-960, 2880, 480, -960>> :> <<14511552, 15108933, 13107200>> @@
     <<-960, 2880, 480, 0>> :> <<16679262, 587704, 13631488>> @@
     <<-960, 2880, 480, 960>> :> <<14511552, 15108933, 13107200>> @@
     <<-960, 2880, 480, 1920>> :> <<11397931, 3900984, 2621440>> @@
     <<-960, 2880, 480, 2880>> :> <<10007557, 3708066, 1048576>> @@
     <<-960, 2880, 960, -2880>> :> <<13343409, 10536493, 7340032>> @@
     <<-960, 2880, 960, -1920>> :> <<14308826, 2659478, 9961472>> @@
     <<-960, 2880, 960, -960>> :> <<16795458, 3084374, 14680064>>) @@
    (<<-960, 2880, 960, 0>> :> <<20015114, 7416132, 3145728>> @@
     <<-960, 2880, 960, 960>> :> <<16795458, 3084374, 14680064>> @@
     <<-960, 2880, 960, 1920>> :> <<14308826, 2659478, 9961472>> @@
     <<-960, 2880, 960, 2880>> :> <<13343409, 10536493, 7340032>> @@
     <<-960, 2880, 1440, -2880>> :> <<16679262, 587704, 12058624>> @@
     <<-960, 2880, 1440, -1920>> :> <<16679262, 587704, 12058624>> @@
     <<-960, 2880, 1440, -960>> :> <<16679262, 587704, 12058624>> @@
     <<-960, 2880, 1440, 0>> :> <<16679262, 587704, 12058624>> @@
     <<-960, 2880, 1440, 960>> :> <<16679262, 587704, 12058624>> @@
     <<-960, 2880, 1440, 1920>> :> <<16679262, 587704, 12058624>> @@
     <<-960, 2880, 1440, 2880>> :> <<16679262, 587704, 12058624>> @@
     <<-960, 2880, 0, 480>> :> <<12860701, 6086392, 14680064>> @@
     <<-960, 2880, 160, 800>> :> <<13102441, 3961711, 4718592>> @@
     <<-960, 2880, 8, 0>> :> <<13399007, 2820933, 2097152>> @@
     <<-960, 2880, 0, 720>> :> <<12309830, 5829382, 12582912>> @@
     <<-960, 2880, 168, 804>> :> <<13140624, 8163696, 1572864>> @@
     <<-960, 2880, 720, 1440>> :> <<14206421, 12867767, 13631488>> @@
     <<-960, 2880, -480, -2400>> :> <<4013895, 11036053, 10354688>> @@
     <<-960, 2880, 0, 240>> :> <<13218770, 6666553, 12058624>> @@
     <<-960, 2880, 480, 480>> :> <<16001218, 13157294, 9961472>>) @@
    (<<-960, 2880, -960, 2160>> :> <<2453207, 1944317, 11403264>> @@
     <<-960, 2880, 160, 960>> :> <<12605619, 12022025, 14680064>> @@
     <<-960, 2880, 16, 0>> :> <<13454604, 11882588, 12582912>> @@
     <<-960, 2880, 0, 16>> :> <<13342849, 7025992, 10485760>> @@
     <<-960, 2880, 0, 32>> :> <<13341169, 2218502, 16252928>> @@
     <<-960, 2880, 16, 16>> :> <<13454038, 13365827, 12582912>> @@
     <<-960, 2880, 0, 160>> :> <<13287668, 80208, 5767168>> @@
     <<-960, 2880, 160, 0>> :> <<14455360, 7220230, 9437184>> @@
     <<-960, 2880, 160, 160>> :> <<14393396, 15413682, 1048576>> @@
     <<-960, 2880, 720, 720>> :> <<16633006, 4757114, 10485760>> @@
     <<-960, 2880, -720, -1440>> :> <<5808692, 11325580, 6553600>> @@
     <<-960, 2880, 720, -1440>> :> <<14206421, 12867767, 13631488>> @@
     <<-960, 2880, -160, -960>> :> <<10618953, 14189813, 7340032>> @@
     <<-960, 2880, 0, 1440>> :> <<10007557, 3708066, 1048576>> @@
     <<-960, 2880, 0, -1440>> :> <<10007557, 3708066, 1572864>> @@
     <<-960, 2880, 1, 1>> :> <<13350357, 2193309, 1048576>> @@
     <<-480, -2880, -1440, -2880>> :> <<6671704, 13656854, 12320768>> @@
     <<-480, -2880, -1440, -1920>> :> <<6671704, 13656854, 12320768>> @@
     <<-480, -2880, -1440, -960>> :> <<6671704, 13656854, 12320768>> @@
     <<-480, -2880, -1440, 0>> :> <<6671704, 13656854, 12320768>>) @@
    (<<-480, -2880, -1440, 960>> :> <<6671704, 13656854, 12320768>> @@
     <<-480, -2880, -1440, 1920>> :> <<6671704, 13656854, 12320768>> @@
     <<-480, -2880, -1440, 2880>> :> <<6671704, 13656854, 12320768>> @@
     <<-480, -2880, -960, -2880>> :> <<3335852, 6828427, 6029312>> @@
     <<-480, -2880, -960, -1920>> :> <<5503561, 9084414, 6553600>> @@
     <<-480, -2880, -960, -960>> :> <<8617183, 3515148, 1048576>> @@
     <<-480, -2880, -960, 0>> :> <<10007557, 3708066, 1572864>> @@
     <<-480, -2880, -960, 960>> :> <<8617183, 3515148, 1048576>> @@
     <<-480, -2880, -960, 1920>> :> <<5503561, 9084414, 7077888>> @@
     <<-480, -2880, -960, 2880>> :> <<3335852, 6828427, 6029312>> @@
     <<-480, -2880, -480, -2880>> :> <<0, 0, 0>> @@
     <<-480, -2880, -480, -1920>> :> <<5706288, 4756653, 8912896>> @@
     <<-480, -2880, -480, -960>> :> <<10806021, 15708081, 9961472>> @@
     <<-480, -2880, -480, 0>> :> <<13343409, 10536493, 7864320>> @@
     <<-480, -2880, -480, 960>> :> <<10806021, 15708081, 9961472>> @@
     <<-480, -2880, -480, 1920>> :> <<5706288, 4756653, 9961472>> @@
     <<-480, -2880, -480, 2880>> :> <<0, 0, 380381, 9699456, 14467072>> @@
     <<-480, -2880, 0, -2880>> :> <<3335852, 6828427, 6029312>> @@
     <<-480, -2880, 0, -1920>> :> <<7154413, 1329739, 5505024>> @@
     <<-480, -2880, 0, -960>> :> <<12860701, 6086392, 14680064>>) @@
    (<<-480, -2880, 0, 0>> :> <<16679262, 587704, 13631488>> @@
     <<-480, -2880, 0, 960>> :> <<12860701, 6086392, 14680064>> @@
     <<-480, -2880, 0, 1920>> :> <<7154413, 1329739, 6291456>> @@
     <<-480, -2880, 0, 2880>> :> <<3335852, 6828427, 6029312>> @@
     <<-480, -2880, 480, -2880>> :> <<6671704, 13656854, 12058624>> @@
     <<-480, -2880, 480, -1920>> :> <<9209092, 8485266, 10485760>> @@
     <<-480, -2880, 480, -960>> :> <<14308826, 2659478, 12058624>> @@
     <<-480, -2880, 480, 0>> :> <<20015114, 7416132, 3145728>> @@
     <<-480, -2880, 480, 960>> :> <<14308826, 2659478, 12058624>> @@
     <<-480, -2880, 480, 1920>> :> <<9209092, 8485266, 11010048>> @@
     <<-480, -2880, 480, 2880>> :> <<6671704, 13656854, 12058624>> @@
     <<-480, -2880, 960, -2880>> :> <<10007557, 3708066, 1048576>> @@
     <<-480, -2880, 960, -1920>> :> <<11397931, 3900984, 2621440>> @@
     <<-480, -2880, 960, -960>> :> <<14511552, 15108933, 13107200>> @@
     <<-480, -2880, 960, 0>> :> <<16679262, 587704, 13631488>> @@
     <<-480, -2880, 960, 960>> :> <<14511552, 15108933, 13107200>> @@
     <<-480, -2880, 960, 1920>> :> <<11397931, 3900984, 2621440>> @@
     <<-480, -2880, 960, 2880>> :> <<10007557, 3708066, 1048576>> @@
     <<-480, -2880, 1440, -2880>> :> <<13343409, 10536493, 7340032>> @@
     <<-480, -2880, 1440, -1920>> :> <<13343409, 10536493, 7340032>>) @@
    (<<-480, -2880, 1440, -960>> :> <<13343409, 10536493, 7340032>> @@
     <<-480, -2880, 1440, 0>> :> <<13343409, 10536493, 7340032>> @@
     <<-480, -2880, 1440, 960>> :> <<13343409, 10536493, 7340032>> @@
     <<-480, -2880, 1440, 1920>> :> <<13343409, 10536493, 7340032>> @@
     <<-480, -2880, 1440, 2880>> :> <<13343409, 10536493, 7340032>> @@
     <<-480, -2880, 0, 480>> :> <<15410568, 3173498, 15204352>> @@
     <<-480, -2880, 160, 800>> :> <<14391174, 2010216, 11010048>> @@
     <<-480, -2880, 8, 0>> :> <<16734859, 9649360, 8388608>> @@
     <<-480, -2880, 0, 720>> :> <<14206421, 12867767, 13631488>> @@
     <<-480, -2880, 168, 804>> :> <<14395941, 3884551, 7340032>> @@
     <<-480, -2880, 720, 1440>> :> <<12309830, 5829382, 12582912>> @@
     <<-480, -2880, -480, -2400>> :> <<2880517, 6199011, 3670016>> @@
     <<-480, -2880, 0, 240>> :> <<16320553, 2229803, 5767168>> @@
     <<-480, -2880, 480, 480>> :> <<17134597, 1217121, 0>> @@
     <<-480, -2880, -960, 2160>> :> <<4707641, 10020744, 7340032>> @@
     <<-480, -2880, 160, 960>> :> <<13441384, 15701923, 13631488>> @@
     <<-480, -2880, 16, 0>> :> <<16790457, 1933800, 3145728>> @@
     <<-480, -2880, 0, 16>> :> <<16677581, 12556269, 8912896>> @@
     <<-480, -2880, 0, 32>> :> <<16672545, 16700787, 7340032>> @@
     <<-480, -2880, 16, 16>> :> <<16788724, 7952389, 12582912>>) @@
    (<<-480, -2880, 0, 160>> :> <<16515254, 16357057, 6815744>> @@
     <<-480, -2880, 160, 0>> :> <<17791212, 14048657, 14680064>> @@
     <<-480, -2880, 160, 160>> :> <<17561210, 15250829, 5242880>> @@
     <<-480, -2880, 720, 720>> :> <<15774774, 1199996, 9437184>> @@
     <<-480, -2880, -720, -1440>> :> <<7705284, 1586749, 7077888>> @@
     <<-480, -2880, 720, -1440>> :> <<12309830, 5829382, 12058624>> @@
     <<-480, -2880, -160, -960>> :> <<12215127, 2194292, 9961472>> @@
     <<-480, -2880, 0, 1440>> :> <<10007557, 3708066, 1572864>> @@
     <<-480, -2880, 0, -1440>> :> <<10007557, 3708066, 1048576>> @@
     <<-480, -2880, 1, 1>> :> <<16686205, 2513863, 16252928>> @@
     <<-480, -1920, -1440, -2880>> :> <<6671704, 13656854, 12320768>> @@
     <<-480, -1920, -1440, -1920>> :> <<6671704, 13656854, 12320768>> @@
     <<-480, -1920, -1440, -960>> :> <<6671704, 13656854, 12320768>> @@
     <<-480, -1920, -1440, 0>> :> <<6671704, 13656854, 12320768>> @@
     <<-480, -1920, -1440, 960>> :> <<6671704, 13656854, 12320768>> @@
     <<-480, -1920, -1440, 1920>> :> <<6671704, 13656854, 12320768>> @@
     <<-480, -1920, -1440, 2880>> :> <<6671704, 13656854, 12320768>> @@
     <<-480, -1920, -960, -2880>> :> <<5503561, 9084414, 6553600>> @@
     <<-480, -1920, -960, -1920>> :> <<3335852, 6828427, 6029312>> @@
     <<-480, -1920, -960, -960>> :> <<5503561, 9084414, 6553600>>) @@
    (<<-480, -1920, -960, 0>> :> <<8617183, 3515148, 524288>> @@
     <<-480, -1920, -960, 960>> :> <<10007557, 3708066, 1572864>> @@
     <<-480, -1920, -960, 1920>> :> <<8617183, 3515148, 1048576>> @@
     <<-480, -1920, -960, 2880>> :> <<5503561, 9084414, 7077888>> @@
     <<-480, -1920, -480, -2880>> :> <<5706288, 4756653, 8912896>> @@
     <<-480, -1920, -480, -1920>> :> <<0, 0, 0>> @@
     <<-480, -1920, -480, -960>> :> <<5706288, 4756653, 8650752>> @@
     <<-480, -1920, -480, 0>> :> <<10806021, 15708081, 9437184>> @@
     <<-480, -1920, -480, 960>> :> <<13343409, 10536493, 7864320>> @@
     <<-480, -1920, -480, 1920>> :> <<10806021, 15708081, 9961472>> @@
     <<-480, -1920, -480, 2880>> :> <<5706288, 4756653, 9961472>> @@
     <<-480, -1920, 0, -2880>> :> <<7154413, 1329739, 5505024>> @@
     <<-480, -1920, 0, -1920>> :> <<3335852, 6828427, 6029312>> @@
     <<-480, -1920, 0, -960>> :> <<7154413, 1329739, 5505024>> @@
     <<-480, -1920, 0, 0>> :> <<12860701, 6086392, 14155776>> @@
     <<-480, -1920, 0, 960>> :> <<16679262, 587704, 13631488>> @@
     <<-480, -1920, 0, 1920>> :> <<12860701, 6086392, 14680064>> @@
     <<-480, -1920, 0, 2880>> :> <<7154413, 1329739, 6291456>> @@
     <<-480, -1920, 480, -2880>> :> <<9209092, 8485266, 10485760>> @@
     <<-480, -1920, 480, -1920>> :> <<6671704, 13656854, 12058624>>) @@
    (<<-480, -1920, 480, -960>> :> <<9209092, 8485266, 10485760>> @@
     <<-480, -1920, 480, 0>> :> <<14308826, 2659478, 9961472>> @@
     <<-480, -1920, 480, 960>> :> <<20015114, 7416132, 3145728>> @@
     <<-480, -1920, 480, 1920>> :> <<14308826, 2659478, 12058624>> @@
     <<-480, -1920, 480, 2880>> :> <<9209092, 8485266, 11010048>> @@
     <<-480, -1920, 960, -2880>> :> <<11397931, 3900984, 2621440>> @@
     <<-480, -1920, 960, -1920>> :> <<10007557, 3708066, 1048576>> @@
     <<-480, -1920, 960, -960>> :> <<11397931, 3900984, 1572864>> @@
     <<-480, -1920, 960, 0>> :> <<14511552, 15108933, 13107200>> @@
     <<-480, -1920, 960, 960>> :> <<16679262, 587704, 13631488>> @@
     <<-480, -1920, 960, 1920>> :> <<14511552, 15108933, 13107200>> @@
     <<-480, -1920, 960, 2880>> :> <<11397931, 3900984, 2621440>> @@
     <<-480, -1920, 1440, -2880>> :> <<13343409, 10536493, 7340032>> @@
     <<-480, -1920, 1440, -1920>> :> <<13343409, 10536493, 7340032>> @@
     <<-480, -1920, 1440, -960>> :> <<13343409, 10536493, 7340032>> @@
     <<-480, -1920, 1440, 0>> :> <<13343409, 10536493, 7340032>> @@
     <<-480, -1920, 1440, 960>> :> <<13343409, 10536493, 7340032>> @@
     <<-480, -1920, 1440, 1920>> :> <<13343409, 10536493, 7340032>> @@
     <<-480, -1920, 1440, 2880>> :> <<13343409, 10536493, 7340032>> @@
     <<-480, -1920, 0, 480>> :> <<15410568, 3173498, 14155776>>) @@
    (<<-480, -1920, 160, 800>> :> <<17561210, 15250829, 5242880>> @@
     <<-480, -1920, 8, 0>> :> <<12891460, 3194170, 11534336>> @@
     <<-480, -1920, 0, 720>> :> <<16320553, 2229803, 5767168>> @@
     <<-480, -1920, 168, 804>> :> <<17623109, 4072659, 3145728>> @@
     <<-480, -1920, 720, 1440>> :> <<16914376, 10072016, 1048576>> @@
     <<-480, -1920, -480, -2400>> :> <<2880517, 6199011, 4456448>> @@
     <<-480, -1920, 0, 240>> :> <<14206421, 12867767, 13631488>> @@
     <<-480, -1920, 480, 480>> :> <<17134597, 1217121, 0>> @@
     <<-480, -1920, -960, 2160>> :> <<7926004, 7321164, 1048576>> @@
     <<-480, -1920, 160, 960>> :> <<17791212, 14048657, 14680064>> @@
     <<-480, -1920, 16, 0>> :> <<12922054, 14978867, 8912896>> @@
     <<-480, -1920, 0, 16>> :> <<12953075, 6057529, 524288>> @@
     <<-480, -1920, 0, 32>> :> <<13045147, 7751359, 4718592>> @@
     <<-480, -1920, 16, 16>> :> <<13014858, 156694, 12582912>> @@
     <<-480, -1920, 0, 160>> :> <<13768824, 12859526, 6815744>> @@
     <<-480, -1920, 160, 0>> :> <<13441384, 15701923, 12058624>> @@
     <<-480, -1920, 160, 160>> :> <<14391174, 2010216, 9437184>> @@
     <<-480, -1920, 720, 720>> :> <<17893447, 5702286, 10485760>> @@
     <<-480, -1920, -720, -1440>> :> <<3100737, 14121332, 1835008>> @@
     <<-480, -1920, 720, -1440>> :> <<8875361, 7032681, 3670016>>) @@
    (<<-480, -1920, -160, -960>> :> <<6573729, 8491424, 6553600>> @@
     <<-480, -1920, 0, 1440>> :> <<15410568, 3173498, 15204352>> @@
     <<-480, -1920, 0, -1440>> :> <<4604546, 4242633, 4980736>> @@
     <<-480, -1920, 1, 1>> :> <<12870338, 11919117, 6291456>> @@
     <<-480, -960, -1440, -2880>> :> <<6671704, 13656854, 12320768>> @@
     <<-480, -960, -1440, -1920>> :> <<6671704, 13656854, 12320768>> @@
     <<-480, -960, -1440, -960>> :> <<6671704, 13656854, 12320768>> @@
     <<-480, -960, -1440, 0>> :> <<6671704, 13656854, 12320768>> @@
     <<-480, -960, -1440, 960>> :> <<6671704, 13656854, 12320768>> @@
     <<-480, -960, -1440, 1920>> :> <<6671704, 13656854, 12320768>> @@
     <<-480, -960, -1440, 2880>> :> <<6671704, 13656854, 12320768>> @@
     <<-480, -960, -960, -2880>> :> <<8617183, 3515148, 1048576>> @@
     <<-480, -960, -960, -1920>> :> <<5503561, 9084414, 6553600>> @@
     <<-480, -960, -960, -960>> :> <<3335852, 6828427, 6029312>> @@
     <<-480, -960, -960, 0>> :> <<5503561, 9084414, 6553600>> @@
     <<-480, -960, -960, 960>> :> <<8617183, 3515148, 524288>> @@
     <<-480, -960, -960, 1920>> :> <<10007557, 3708066, 1572864>> @@
     <<-480, -960, -960, 2880>> :> <<8617183, 3515148, 1048576>> @@
     <<-480, -960, -480, -2880>> :> <<10806021, 15708081, 9961472>> @@
     <<-480, -960, -480, -1920>> :> <<5706288, 4756653, 8650752>>) @@
    (<<-480, -960, -480, -960>> :> <<0, 0, 0>> @@
     <<-480, -960, -480, 0>> :> <<5706288, 4756653, 8650752>> @@
     <<-480, -960, -480, 960>> :> <<10806021, 15708081, 9437184>> @@
     <<-480, -960, -480, 1920>> :> <<13343409, 10536493, 7864320>> @@
     <<-480, -960, -480, 2880>> :> <<10806021, 15708081, 9961472>> @@
     <<-480, -960, 0, -2880>> :> <<12860701, 6086392, 14680064>> @@
     <<-480, -960, 0, -1920>> :> <<7154413, 1329739, 5505024>> @@
     <<-480, -960, 0, -960>> :> <<3335852, 6828427, 6029312>> @@
     <<-480, -960, 0, 0>> :> <<7154413, 1329739, 5505024>> @@
     <<-480, -960, 0, 960>> :> <<12860701, 6086392, 14155776>> @@
     <<-480, -960, 0, 1920>> :> <<16679262, 587704, 13631488>> @@
     <<-480, -960, 0, 2880>> :> <<12860701, 6086392, 14680064>> @@
     <<-480, -960, 480, -2880>> :> <<14308826, 2659478, 12058624>> @@
     <<-480, -960, 480, -1920>> :> <<9209092, 8485266, 10485760>> @@
     <<-480, -960, 480, -960>> :> <<6671704, 13656854, 12058624>> @@
     <<-480, -960, 480, 0>> :> <<9209092, 8485266, 10485760>> @@
     <<-480, -960, 480, 960>> :> <<14308826, 2659478, 9961472>> @@
     <<-480, -960, 480, 1920>> :> <<20015114, 7416132, 3145728>> @@
     <<-480, -960, 480, 2880>> :> <<14308826, 2659478, 12058624>> @@
     <<-480, -960, 960, -2880>> :> <<14511552, 15108933, 13107200>>) @@
    (<<-480, -960, 960, -1920>> :> <<11397931, 3900984, 1572864>> @@
     <<-480, -960, 960, -960>> :> <<10007557, 3708066, 1048576>> @@
     <<-480, -960, 960, 0>> :> <<11397931, 3900984, 1572864>> @@
     <<-480, -960, 960, 960>> :> <<14511552, 15108933, 13107200>> @@
     <<-480, -960, 960, 1920>> :> <<16679262, 587704, 13631488>> @@
     <<-480, -960, 960, 2880>> :> <<14511552, 15108933, 13107200>> @@
     <<-480, -960, 1440, -2880>> :> <<13343409, 10536493, 7340032>> @@
     <<-480, -960, 1440, -1920>> :> <<13343409, 10536493, 7340032>> @@
     <<-480, -960, 1440, -960>> :> <<13343409, 10536493, 7340032>> @@
     <<-480, -960, 1440, 0>> :> <<13343409, 10536493, 7340032>> @@
     <<-480, -960, 1440, 960>> :> <<13343409, 10536493, 7340032>> @@
     <<-480, -960, 1440, 1920>> :> <<13343409, 10536493, 7340032>> @@
     <<-480, -960, 1440, 2880>> :> <<13343409, 10536493, 7340032>> @@
     <<-480, -960, 0, 480>> :> <<10007557, 3708066, 1048576>> @@
     <<-480, -960, 160, 800>> :> <<12480778, 5232957, 10485760>> @@
     <<-480, -960, 8, 0>> :> <<7185333, 4484018, 6291456>> @@
     <<-480, -960, 0, 720>> :> <<11447815, 15196179, 12058624>> @@
     <<-480, -960, 168, 804>> :> <<12531261, 9611743, 1048576>> @@
     <<-480, -960, 720, 1440>> :> <<16914376, 10072015, 15728640>> @@
     <<-480, -960, -480, -2400>> :> <<8397729, 1542187, 7864320>>) @@
    (<<-480, -960, 0, 240>> :> <<8567298, 8997168, 7340032>> @@
     <<-480, -960, 480, 480>> :> <<11617385, 5873944, 12582912>> @@
     <<-480, -960, -960, 2160>> :> <<9913552, 7415751, 5767168>> @@
     <<-480, -960, 160, 960>> :> <<13441384, 15701923, 12058624>> @@
     <<-480, -960, 16, 0>> :> <<7216412, 1295329, 11010048>> @@
     <<-480, -960, 0, 16>> :> <<7247073, 16560389, 5242880>> @@
     <<-480, -960, 0, 32>> :> <<7340007, 7096425, 11272192>> @@
     <<-480, -960, 16, 16>> :> <<7308641, 8876289, 5505024>> @@
     <<-480, -960, 0, 160>> :> <<8091733, 1473448, 12845056>> @@
     <<-480, -960, 160, 0>> :> <<7799987, 5221839, 9961472>> @@
     <<-480, -960, 160, 160>> :> <<8692994, 7418860, 3145728>> @@
     <<-480, -960, 720, 720>> :> <<13432396, 11023896, 2621440>> @@
     <<-480, -960, -720, -1440>> :> <<3100737, 14121332, 1966080>> @@
     <<-480, -960, 720, -1440>> :> <<8875361, 7032681, 3670016>> @@
     <<-480, -960, -160, -960>> :> <<2223901, 10144690, 3932160>> @@
     <<-480, -960, 0, 1440>> :> <<15410568, 3173498, 14155776>> @@
     <<-480, -960, 0, -1440>> :> <<4604546, 4242633, 5242880>> @@
     <<-480, -960, 1, 1>> :> <<7164050, 11862384, 14417920>> @@
     <<-480, 0, -1440, -2880>> :> <<6671704, 13656854, 12320768>> @@
     <<-480, 0, -1440, -1920>> :> <<6671704, 13656854, 12320768>>) @@
    (<<-480, 0, -1440, -960>> :> <<6671704, 13656854, 12320768>> @@
     <<-480, 0, -1440, 0>> :> <<6671704, 13656854, 12320768>> @@
     <<-480, 0, -1440, 960>> :> <<6671704, 13656854, 12320768>> @@
     <<-480, 0, -1440, 1920>> :> <<6671704, 13656854, 12320768>> @@
     <<-480, 0, -1440, 2880>> :> <<6671704, 13656854, 12320768>> @@
     <<-480, 0, -960, -2880>> :> <<10007557, 3708066, 1572864>> @@
     <<-480, 0, -960, -1920>> :> <<8617183, 3515148, 524288>> @@
     <<-480, 0, -960, -960>> :> <<5503561, 9084414, 6553600>> @@
     <<-480, 0, -960, 0>> :> <<3335852, 6828427, 6029312>> @@
     <<-480, 0, -960, 960>> :> <<5503561, 9084414, 6553600>> @@
     <<-480, 0, -960, 1920>> :> <<8617183, 3515148, 524288>> @@
     <<-480, 0, -960, 2880>> :> <<10007557, 3708066, 1572864>> @@
     <<-480, 0, -480, -2880>> :> <<13343409, 10536493, 7864320>> @@
     <<-480, 0, -480, -1920>> :> <<10806021, 15708081, 9437184>> @@
     <<-480, 0, -480, -960>> :> <<5706288, 4756653, 8650752>> @@
     <<-480, 0, -480, 0>> :> <<0, 0, 0>> @@
     <<-480, 0, -480, 960>> :> <<5706288, 4756653, 8650752>> @@
     <<-480, 0, -480, 1920>> :> <<10806021, 15708081, 9437184>> @@
     <<-480, 0, -480, 2880>> :> <<13343409, 10536493, 7864320>> @@
     <<-480, 0, 0, -2880>> :> <<16679262, 587704, 13631488>>) @@
    (<<-480, 0, 0, -1920>> :> <<12860701, 6086392, 14155776>> @@
     <<-480, 0, 0, -960>> :> <<7154413, 1329739, 5505024>> @@
     <<-480, 0, 0, 0>> :> <<3335852, 6828427, 6029312>> @@
     <<-480, 0, 0, 960>> :> <<7154413, 1329739, 5505024>> @@
     <<-480, 0, 0, 1920>> :> <<12860701, 6086392, 14155776>> @@
     <<-480, 0, 0, 2880>> :> <<16679262, 587704, 13631488>> @@
     <<-480, 0, 480, -2880>> :> <<20015114, 7416132, 3145728>> @@
     <<-480, 0, 480, -1920>> :> <<14308826, 2659478, 9961472>> @@
     <<-480, 0, 480, -960>> :> <<9209092, 8485266, 10485760>> @@
     <<-480, 0, 480, 0>> :> <<6671704, 13656854, 12058624>> @@
     <<-480, 0, 480, 960>> :> <<9209092, 8485266, 10485760>> @@
     <<-480, 0, 480, 1920>> :> <<14308826, 2659478, 9961472>> @@
     <<-480, 0, 480, 2880>> :> <<20015114, 7416132, 3145728>> @@
     <<-480, 0, 960, -2880>> :> <<16679262, 587704, 13631488>> @@
     <<-480, 0, 960, -1920>> :> <<14511552, 15108933, 13107200>> @@
     <<-480, 0, 960, -960>> :> <<11397931, 3900984, 1572864>> @@
     <<-480, 0, 960, 0>> :> <<10007557, 3708066, 1048576>> @@
     <<-480, 0, 960, 960>> :> <<11397931, 3900984, 1572864>> @@
     <<-480, 0, 960, 1920>> :> <<14511552, 15108933, 13107200>> @@
     <<-480, 0, 960, 2880>> :> <<16679262, 587704, 13631488>>) @@
    (<<-480, 0, 1440, -2880>> :> <<13343409, 10536493, 7340032>> @@
     <<-480, 0, 1440, -1920>> :> <<13343409, 10536493, 7340032>> @@
     <<-480, 0, 1440, -960>> :> <<13343409, 10536493, 7340032>> @@
     <<-480, 0, 1440, 0>> :> <<13343409, 10536493, 7340032>> @@
     <<-480, 0, 1440, 960>> :> <<13343409, 10536493, 7340032>> @@
     <<-480, 0, 1440, 1920>> :> <<13343409, 10536493, 7340032>> @@
     <<-480, 0, 1440, 2880>> :> <<13343409, 10536493, 7340032>> @@
     <<-480, 0, 0, 480>> :> <<4604546, 4242633, 5242880>> @@
     <<-480, 0, 160, 800>> :> <<6952273, 8216887, 15990784>> @@
     <<-480, 0, 8, 0>> :> <<3391449, 15890083, 262144>> @@
     <<-480, 0, 0, 720>> :> <<5808692, 11325580, 6291456>> @@
     <<-480, 0, 168, 804>> :> <<7009656, 9727567, 8912896>> @@
     <<-480, 0, 720, 1440>> :> <<12309830, 5829382, 12058624>> @@
     <<-480, 0, -480, -2400>> :> <<12625991, 13820690, 7864320>> @@
     <<-480, 0, 0, 240>> :> <<3694561, 5186328, 14286848>> @@
     <<-480, 0, 480, 480>> :> <<7389122, 10372657, 12058624>> @@
     <<-480, 0, -960, 2160>> :> <<9197362, 10113900, 7864320>> @@
     <<-480, 0, 160, 960>> :> <<7799987, 5221839, 9961472>> @@
     <<-480, 0, 16, 0>> :> <<3447047, 8174522, 11272192>> @@
     <<-480, 0, 0, 16>> :> <<3337532, 11637078, 12320768>>) @@
    (<<-480, 0, 0, 32>> :> <<3342568, 7492560, 12845056>> @@
     <<-480, 0, 16, 16>> :> <<3448678, 8212379, 4849664>> @@
     <<-480, 0, 0, 160>> :> <<3499859, 7836290, 13238272>> @@
     <<-480, 0, 160, 0>> :> <<4447803, 3512164, 8126464>> @@
     <<-480, 0, 160, 160>> :> <<4574728, 8139040, 14680064>> @@
     <<-480, 0, 720, 720>> :> <<9500787, 329375, 8388608>> @@
     <<-480, 0, -720, -1440>> :> <<7705284, 1586749, 7077888>> @@
     <<-480, 0, 720, -1440>> :> <<12309830, 5829382, 12058624>> @@
     <<-480, 0, -160, -960>> :> <<6573729, 8491424, 6553600>> @@
     <<-480, 0, 0, 1440>> :> <<10007557, 3708066, 1048576>> @@
     <<-480, 0, 0, -1440>> :> <<10007557, 3708066, 1048576>> @@
     <<-480, 0, 1, 1>> :> <<3342808, 10945767, 2490368>> @@
     <<-480, 960, -1440, -2880>> :> <<6671704, 13656854, 12320768>> @@
     <<-480, 960, -1440, -1920>> :> <<6671704, 13656854, 12320768>> @@
     <<-480, 960, -1440, -960>> :> <<6671704, 13656854, 12320768>> @@
     <<-480, 960, -1440, 0>> :> <<6671704, 13656854, 12320768>> @@
     <<-480, 960, -1440, 960>> :> <<6671704, 13656854, 12320768>> @@
     <<-480, 960, -1440, 1920>> :> <<6671704, 13656854, 12320768>> @@
     <<-480, 960, -1440, 2880>> :> <<6671704, 13656854, 12320768>> @@
     <<-480, 960, -960, -2880>> :> <<8617183, 3515148, 1048576>>) @@
    (<<-480, 960, -960, -1920>> :> <<10007557, 3708066, 1572864>> @@
     <<-480, 960, -960, -960>> :> <<8617183, 3515148, 524288>> @@
     <<-480, 960, -960, 0>> :> <<5503561, 9084414, 6553600>> @@
     <<-480, 960, -960, 960>> :> <<3335852, 6828427, 6029312>> @@
     <<-480, 960, -960, 1920>> :> <<5503561, 9084414, 6553600>> @@
     <<-480, 960, -960, 2880>> :> <<8617183, 3515148, 1048576>> @@
     <<-480, 960, -480, -2880>> :> <<10806021, 15708081, 9961472>> @@
     <<-480, 960, -480, -1920>> :> <<13343409, 10536493, 7864320>> @@
     <<-480, 960, -480, -960>> :> <<10806021, 15708081, 9437184>> @@
     <<-480, 960, -480, 0>> :> <<5706288, 4756653, 8650752>> @@
     <<-480, 960, -480, 960>> :> <<0, 0, 0>> @@
     <<-480, 960, -480, 1920>> :> <<5706288, 4756653, 8650752>> @@
     <<-480, 960, -480, 2880>> :> <<10806021, 15708081, 9961472>> @@
     <<-480, 960, 0, -2880>> :> <<12860701, 6086392, 14680064>> @@
     <<-480, 960, 0, -1920>> :> <<16679262, 587704, 13631488>> @@
     <<-480, 960, 0, -960>> :> <<12860701, 6086392, 14155776>> @@
     <<-480, 960, 0, 0>> :> <<7154413, 1329739, 5505024>> @@
     <<-480, 960, 0, 960>> :> <<3335852, 6828427, 6029312>> @@
     <<-480, 960, 0, 1920>> :> <<7154413, 1329739, 5505024>> @@
     <<-480, 960, 0, 2880>> :> <<12860701, 6086392, 14680064>>) @@
    (<<-480, 960, 480, -2880>> :> <<14308826, 2659478, 12058624>> @@
     <<-480, 960, 480, -1920>> :> <<20015114, 7416132, 3145728>> @@
     <<-480, 960, 480, -960>> :> <<14308826, 2659478, 9961472>> @@
     <<-480, 960, 480, 0>> :> <<9209092, 8485266, 10485760>> @@
     <<-480, 960, 480, 960>> :> <<6671704, 13656854, 12058624>> @@
     <<-480, 960, 480, 1920>> :> <<9209092, 8485266, 10485760>> @@
     <<-480, 960, 480, 2880>> :> <<14308826, 2659478, 12058624>> @@
     <<-480, 960, 960, -2880>> :> <<14511552, 15108933, 13107200>> @@
     <<-480, 960, 960, -1920>> :> <<16679262, 587704, 13631488>> @@
     <<-480, 960, 960, -960>> :> <<14511552, 15108933, 13107200>> @@
     <<-480, 960, 960, 0>> :> <<11397931, 3900984, 1572864>> @@
     <<-480, 960, 960, 960>> :> <<10007557, 3708066, 1048576>> @@
     <<-480, 960, 960, 1920>> :> <<11397931, 3900984, 1572864>> @@
     <<-480, 960, 960, 2880>> :> <<14511552, 15108933, 13107200>> @@
     <<-480, 960, 1440, -2880>> :> <<13343409, 10536493, 7340032>> @@
     <<-480, 960, 1440, -1920>> :> <<13343409, 10536493, 7340032>> @@
     <<-480, 960, 1440, -960>> :> <<13343409, 10536493, 7340032>> @@
     <<-480, 960, 1440, 0>> :> <<13343409, 10536493, 7340032>> @@
     <<-480, 960, 1440, 960>> :> <<13343409, 10536493, 7340032>> @@
     <<-480, 960, 1440, 1920>> :> <<13343409, 10536493, 7340032>>) @@
    (<<-480, 960, 1440, 2880>> :> <<13343409, 10536493, 7340032>> @@
     <<-480, 960, 0, 480>> :> <<4604546, 4242633, 5242880>> @@
     <<-480, 960, 160, 800>> :> <<4574728, 8139040, 14417920>> @@
     <<-480, 960, 8, 0>> :> <<7185333, 4484018, 6291456>> @@
     <<-480, 960, 0, 720>> :> <<3694561, 5186328, 14286848>> @@
     <<-480, 960, 168, 804>> :> <<4622754, 825582, 15204352>> @@
     <<-480, 960, 720, 1440>> :> <<8875361, 7032681, 3670016>> @@
     <<-480, 960, -480, -2400>> :> <<12625991, 13820690, 7864320>> @@
     <<-480, 960, 0, 240>> :> <<5808692, 11325580, 6291456>> @@
     <<-480, 960, 480, 480>> :> <<7389122, 10372657, 12058624>> @@
     <<-480, 960, -960, 2160>> :> <<6334733, 16044465, 10485760>> @@
     <<-480, 960, 160, 960>> :> <<4447803, 3512164, 8126464>> @@
     <<-480, 960, 16, 0>> :> <<7216412, 1295329, 11010048>> @@
     <<-480, 960, 0, 16>> :> <<7062039, 1358603, 2621440>> @@
     <<-480, 960, 0, 32>> :> <<6969966, 16441988, 14417920>> @@
     <<-480, 960, 16, 16>> :> <<7124487, 1556283, 8388608>> @@
     <<-480, 960, 0, 160>> :> <<6246289, 11333821, 11534336>> @@
     <<-480, 960, 160, 0>> :> <<7799987, 5221839, 9961472>> @@
     <<-480, 960, 160, 160>> :> <<6952273, 8216887, 15990784>> @@
     <<-480, 960, 720, 720>> :> <<8476873, 1949870, 7340032>>) @@
    (<<-480, 960, -720, -1440>> :> <<11139753, 383450, 16252928>> @@
     <<-480, 960, 720, -1440>> :> <<16914376, 10072015, 15728640>> @@
     <<-480, 960, -160, -960>> :> <<12215127, 2194292, 8388608>> @@
     <<-480, 960, 0, 1440>> :> <<4604546, 4242633, 5242880>> @@
     <<-480, 960, 0, -1440>> :> <<15410568, 3173498, 14155776>> @@
     <<-480, 960, 1, 1>> :> <<7152489, 1465591, 262144>> @@
     <<-480, 1920, -1440, -2880>> :> <<6671704, 13656854, 12320768>> @@
     <<-480, 1920, -1440, -1920>> :> <<6671704, 13656854, 12320768>> @@
     <<-480, 1920, -1440, -960>> :> <<6671704, 13656854, 12320768>> @@
     <<-480, 1920, -1440, 0>> :> <<6671704, 13656854, 12320768>> @@
     <<-480, 1920, -1440, 960>> :> <<6671704, 13656854, 12320768>> @@
     <<-480, 1920, -1440, 1920>> :> <<6671704, 13656854, 12320768>> @@
     <<-480, 1920, -1440, 2880>> :> <<6671704, 13656854, 12320768>> @@
     <<-480, 1920, -960, -2880>> :> <<5503561, 9084414, 7077888>> @@
     <<-480, 1920, -960, -1920>> :> <<8617183, 3515148, 1048576>> @@
     <<-480, 1920, -960, -960>> :> <<10007557, 3708066, 1572864>> @@
     <<-480, 1920, -960, 0>> :> <<8617183, 3515148, 524288>> @@
     <<-480, 1920, -960, 960>> :> <<5503561, 9084414, 6553600>> @@
     <<-480, 1920, -960, 1920>> :> <<3335852, 6828427, 6029312>> @@
     <<-480, 1920, -960, 2880>> :> <<5503561, 9084414, 6553600>>) @@
    (<<-480, 1920, -480, -2880>> :> <<5706288, 4756653, 9961472>> @@
     <<-480, 1920, -480, -1920>> :> <<10806021, 15708081, 9961472>> @@
     <<-480, 1920, -480, -960>> :> <<13343409, 10536493, 7864320>> @@
     <<-480, 1920, -480, 0>> :> <<10806021, 15708081, 9437184>> @@
     <<-480, 1920, -480, 960>> :> <<5706288, 4756653, 8650752>> @@
     <<-480, 1920, -480, 1920>> :> <<0, 0, 0>> @@
     <<-480, 1920, -480, 2880>> :> <<5706288, 4756653, 8912896>> @@
     <<-480, 1920, 0, -2880>> :> <<7154413, 1329739, 6291456>> @@
     <<-480, 1920, 0, -1920>> :> <<12860701, 6086392, 14680064>> @@
     <<-480, 1920, 0, -960>> :> <<16679262, 587704, 13631488>> @@
     <<-480, 1920, 0, 0>> :> <<12860701, 6086392, 14155776>> @@
     <<-480, 1920, 0, 960>> :> <<7154413, 1329739, 5505024>> @@
     <<-480, 1920, 0, 1920>> :> <<3335852, 6828427, 6029312>> @@
     <<-480, 1920, 0, 2880>> :> <<7154413, 1329739, 5505024>> @@
     <<-480, 1920, 480, -2880>> :> <<9209092, 8485266, 11010048>> @@
     <<-480, 1920, 480, -1920>> :> <<14308826, 2659478, 12058624>> @@
     <<-480, 1920, 480, -960>> :> <<20015114, 7416132, 3145728>> @@
     <<-480, 1920, 480, 0>> :> <<14308826, 2659478, 9961472>> @@
     <<-480, 1920, 480, 960>> :> <<9209092, 8485266, 10485760>> @@
     <<-480, 1920, 480, 1920>> :> <<6671704, 13656854, 12058624>>) @@
    (<<-480, 1920, 480, 2880>> :> <<9209092, 8485266, 10485760>> @@
     <<-480, 1920, 960, -2880>> :> <<11397931, 3900984, 2621440>> @@
     <<-480, 1920, 960, -1920>> :> <<14511552, 15108933, 13107200>> @@
     <<-480, 1920, 960, -960>> :> <<16679262, 587704, 13631488>> @@
     <<-480, 1920, 960, 0>> :> <<14511552, 15108933, 13107200>> @@
     <<-480, 1920, 960, 960>> :> <<11397931, 3900984, 1572864>> @@
     <<-480, 1920, 960, 1920>> :> <<10007557, 3708066, 1048576>> @@
     <<-480, 1920, 960, 2880>> :> <<11397931, 3900984, 2621440>> @@
     <<-480, 1920, 1440, -2880>> :> <<13343409, 10536493, 7340032>> @@
     <<-480, 1920, 1440, -1920>> :> <<13343409, 10536493, 7340032>> @@
     <<-480, 1920, 1440, -960>> :> <<13343409, 10536493, 7340032>> @@
     <<-480, 1920, 1440, 0>> :> <<13343409, 10536493, 7340032>> @@
     <<-480, 1920, 1440, 960>> :> <<13343409, 10536493, 7340032>> @@
     <<-480, 1920, 1440, 1920>> :> <<13343409, 10536493, 7340032>> @@
     <<-480, 1920, 1440, 2880>> :> <<13343409, 10536493, 7340032>> @@
     <<-480, 1920, 0, 480>> :> <<10007557, 3708066, 1048576>> @@
     <<-480, 1920, 160, 800>> :> <<8692994, 7418860, 3145728>> @@
     <<-480, 1920, 8, 0>> :> <<12891460, 3194170, 11534336>> @@
     <<-480, 1920, 0, 720>> :> <<8567298, 8997168, 7340032>> @@
     <<-480, 1920, 168, 804>> :> <<8701227, 5761592, 1048576>>) @@
    (<<-480, 1920, 720, 1440>> :> <<8875361, 7032681, 3670016>> @@
     <<-480, 1920, -480, -2400>> :> <<8397729, 1542187, 7864320>> @@
     <<-480, 1920, 0, 240>> :> <<11447815, 15196179, 12058624>> @@
     <<-480, 1920, 480, 480>> :> <<11617385, 5873944, 12582912>> @@
     <<-480, 1920, -960, 2160>> :> <<3519305, 16473485, 7995392>> @@
     <<-480, 1920, 160, 960>> :> <<7799987, 5221839, 9961472>> @@
     <<-480, 1920, 16, 0>> :> <<12922054, 14978867, 8912896>> @@
     <<-480, 1920, 0, 16>> :> <<12768040, 7632958, 14680064>> @@
     <<-480, 1920, 0, 32>> :> <<12675107, 319706, 7864320>> @@
     <<-480, 1920, 16, 16>> :> <<12828982, 10975354, 14155776>> @@
     <<-480, 1920, 0, 160>> :> <<11923381, 5942683, 6291456>> @@
     <<-480, 1920, 160, 0>> :> <<13441384, 15701923, 12058624>> @@
     <<-480, 1920, 160, 160>> :> <<12480778, 5232957, 10485760>> @@
     <<-480, 1920, 720, 720>> :> <<11258303, 3839617, 3145728>> @@
     <<-480, 1920, -720, -1440>> :> <<11139753, 383450, 16252928>> @@
     <<-480, 1920, 720, -1440>> :> <<16914376, 10072016, 1048576>> @@
     <<-480, 1920, -160, -960>> :> <<15567311, 3903967, 12058624>> @@
     <<-480, 1920, 0, 1440>> :> <<4604546, 4242633, 4980736>> @@
     <<-480, 1920, 0, -1440>> :> <<15410568, 3173498, 15204352>> @@
     <<-480, 1920, 1, 1>> :> <<12858770, 6165334, 2097152>>) @@
    (<<-480, 2880, -1440, -2880>> :> <<6671704, 13656854, 12320768>> @@
     <<-480, 2880, -1440, -1920>> :> <<6671704, 13656854, 12320768>> @@
     <<-480, 2880, -1440, -960>> :> <<6671704, 13656854, 12320768>> @@
     <<-480, 2880, -1440, 0>> :> <<6671704, 13656854, 12320768>> @@
     <<-480, 2880, -1440, 960>> :> <<6671704, 13656854, 12320768>> @@
     <<-480, 2880, -1440, 1920>> :> <<6671704, 13656854, 12320768>> @@
     <<-480, 2880, -1440, 2880>> :> <<6671704, 13656854, 12320768>> @@
     <<-480, 2880, -960, -2880>> :> <<3335852, 6828427, 6029312>> @@
     <<-480, 2880, -960, -1920>> :> <<5503561, 9084414, 7077888>> @@
     <<-480, 2880, -960, -960>> :> <<8617183, 3515148, 1048576>> @@
     <<-480, 2880, -960, 0>> :> <<10007557, 3708066, 1572864>> @@
     <<-480, 2880, -960, 960>> :> <<8617183, 3515148, 1048576>> @@
     <<-480, 2880, -960, 1920>> :> <<5503561, 9084414, 6553600>> @@
     <<-480, 2880, -960, 2880>> :> <<3335852, 6828427, 6029312>> @@
     <<-480, 2880, -480, -2880>> :> <<0, 0, 380381, 9699456, 14467072>> @@
     <<-480, 2880, -480, -1920>> :> <<5706288, 4756653, 9961472>> @@
     <<-480, 2880, -480, -960>> :> <<10806021, 15708081, 9961472>> @@
     <<-480, 2880, -480, 0>> :> <<13343409, 10536493, 7864320>> @@
     <<-480, 2880, -480, 960>> :> <<10806021, 15708081, 9961472>> @@
     <<-480, 2880, -480, 1920>> :> <<5706288, 4756653, 8912896>>) @@
    (<<-480, 2880, -480, 2880>> :> <<0, 0, 0>> @@
     <<-480, 2880, 0, -2880>> :> <<3335852, 6828427, 6029312>> @@
     <<-480, 2880, 0, -1920>> :> <<7154413, 1329739, 6291456>> @@
     <<-480, 2880, 0, -960>> :> <<12860701, 6086392, 14680064>> @@
     <<-480, 2880, 0, 0>> :> <<16679262, 587704, 13631488>> @@
     <<-480, 2880, 0, 960>> :> <<12860701, 6086392, 14680064>> @@
     <<-480, 2880, 0, 1920>> :> <<7154413, 1329739, 5505024>> @@
     <<-480, 2880, 0, 2880>> :> <<3335852, 6828427, 6029312>> @@
     <<-480, 2880, 480, -2880>> :> <<6671704, 13656854, 12058624>> @@
     <<-480, 2880, 480, -1920>> :> <<9209092, 8485266, 11010048>> @@
     <<-480, 2880, 480, -960>> :> <<14308826, 2659478, 12058624>> @@
     <<-480, 2880, 480, 0>> :> <<20015114, 7416132, 3145728>> @@
     <<-480, 2880, 480, 960>> :> <<14308826, 2659478, 12058624>> @@
     <<-480, 2880, 480, 1920>> :> <<9209092, 8485266, 10485760>> @@
     <<-480, 2880, 480, 2880>> :> <<6671704, 13656854, 12058624>> @@
     <<-480, 2880, 960, -2880>> :> <<10007557, 3708066, 1048576>> @@
     <<-480, 2880, 960, -1920>> :> <<11397931, 3900984, 2621440>> @@
     <<-480, 2880, 960, -960>> :> <<14511552, 15108933, 13107200>> @@
     <<-480, 2880, 960, 0>> :> <<16679262, 587704, 13631488>> @@
     <<-480, 2880, 960, 960>> :> <<14511552, 15108933, 13107200>>) @@
    (<<-480, 2880, 960, 1920>> :> <<11397931, 3900984, 2621440>> @@
     <<-480, 2880, 960, 2880>> :> <<10007557, 3708066, 1048576>> @@
     <<-480, 2880, 1440, -2880>> :> <<13343409, 10536493, 7340032>> @@
     <<-480, 2880, 1440, -1920>> :> <<13343409, 10536493, 7340032>> @@
     <<-480, 2880, 1440, -960>> :> <<13343409, 10536493, 7340032>> @@
     <<-480, 2880, 1440, 0>> :> <<13343409, 10536493, 7340032>> @@
     <<-480, 2880, 1440, 960>> :> <<13343409, 10536493, 7340032>> @@
     <<-480, 2880, 1440, 1920>> :> <<13343409, 10536493, 7340032>> @@
     <<-480, 2880, 1440, 2880>> :> <<13343409, 10536493, 7340032>> @@
     <<-480, 2880, 0, 480>> :> <<15410568, 3173498, 15204352>> @@
     <<-480, 2880, 160, 800>> :> <<14391174, 2010216, 10485760>> @@
     <<-480, 2880, 8, 0>> :> <<16734859, 9649360, 8388608>> @@
     <<-480, 2880, 0, 720>> :> <<14206421, 12867767, 13631488>> @@
     <<-480, 2880, 168, 804>> :> <<14395941, 3884551, 5767168>> @@
     <<-480, 2880, 720, 1440>> :> <<12309830, 5829382, 12058624>> @@
     <<-480, 2880, -480, -2400>> :> <<2880517, 6199011, 3276800>> @@
     <<-480, 2880, 0, 240>> :> <<16320553, 2229803, 5767168>> @@
     <<-480, 2880, 480, 480>> :> <<17134597, 1217121, 0>> @@
     <<-480, 2880, -960, 2160>> :> <<4707641, 10020744, 7340032>> @@
     <<-480, 2880, 160, 960>> :> <<13441384, 15701923, 13631488>>) @@
    (<<-480, 2880, 16, 0>> :> <<16790457, 1933800, 3145728>> @@
     <<-480, 2880, 0, 16>> :> <<16677581, 12556269, 8912896>> @@
     <<-480, 2880, 0, 32>> :> <<16672545, 16700787, 7340032>> @@
     <<-480, 2880, 16, 16>> :> <<16788724, 7952389, 12582912>> @@
     <<-480, 2880, 0, 160>> :> <<16515254, 16357057, 6815744>> @@
     <<-480, 2880, 160, 0>> :> <<17791212, 14048657, 14680064>> @@
     <<-480, 2880, 160, 160>> :> <<17561210, 15250829, 5242880>> @@
     <<-480, 2880, 720, 720>> :> <<15774774, 1199996, 9437184>> @@
     <<-480, 2880, -720, -1440>> :> <<7705284, 1586749, 7602176>> @@
     <<-480, 2880, 720, -1440>> :> <<12309830, 5829382, 12582912>> @@
     <<-480, 2880, -160, -960>> :> <<12215127, 2194292, 9961472>> @@
     <<-480, 2880, 0, 1440>> :> <<10007557, 3708066, 1048576>> @@
     <<-480, 2880, 0, -1440>> :> <<10007557, 3708066, 1572864>> @@
     <<-480, 2880, 1, 1>> :> <<16686205, 2513863, 16252928>> @@
     <<0, -2880, -1440, -2880>> :> <<10007557, 3708066, 1048576>> @@
     <<0, -2880, -1440, -1920>> :> <<10007557, 3708066, 1048576>> @@
     <<0, -2880, -1440, -960>> :> <<10007557, 3708066, 1048576>> @@
     <<0, -2880, -1440, 0>> :> <<10007557, 3708066, 1048576>> @@
     <<0, -2880, -1440, 960>> :> <<10007557, 3708066, 1048576>> @@
     <<0, -2880, -1440, 1920>> :> <<10007557, 3708066, 1048576>>) @@
    (<<0, -2880, -1440, 2880>> :> <<10007557, 3708066, 1048576>> @@
     <<0, -2880, -960, -2880>> :> <<6671704, 13656854, 12058624>> @@
     <<0, -2880, -960, -1920>> :> <<8397729, 1542187, 6815744>> @@
     <<0, -2880, -960, -960>> :> <<11617385, 5873944, 12582912>> @@
     <<0, -2880, -960, 0>> :> <<13343409, 10536493, 7340032>> @@
     <<0, -2880, -960, 960>> :> <<11617385, 5873944, 12582912>> @@
     <<0, -2880, -960, 1920>> :> <<8397729, 1542187, 7340032>> @@
     <<0, -2880, -960, 2880>> :> <<6671704, 13656854, 12058624>> @@
     <<0, -2880, -480, -2880>> :> <<3335852, 6828427, 6029312>> @@
     <<0, -2880, -480, -1920>> :> <<7154413, 1329739, 5505024>> @@
     <<0, -2880, -480, -960>> :> <<12860701, 6086392, 14680064>> @@
     <<0, -2880, -480, 0>> :> <<16679262, 587704, 13631488>> @@
     <<0, -2880, -480, 960>> :> <<12860701, 6086392, 14680064>> @@
     <<0, -2880, -480, 1920>> :> <<7154413, 1329739, 6291456>> @@
     <<0, -2880, -480, 2880>> :> <<3335852, 6828427, 6029312>> @@
     <<0, -2880, 0, -2880>> :> <<0, 0, 0>> @@
     <<0, -2880, 0, -1920>> :> <<6671704, 13656854, 12320768>> @@
     <<0, -2880, 0, -960>> :> <<13343409, 10536493, 7864320>> @@
     <<0, -2880, 0, 0>> :> <<20015114, 7416132, 3145728>> @@
     <<0, -2880, 0, 960>> :> <<13343409, 10536493, 7864320>>) @@
    (<<0, -2880, 0, 1920>> :> <<6671704, 13656854, 13631488>> @@
     <<0, -2880, 0, 2880>> :> <<0, 0, 439226, 13640872, 7274496>> @@
     <<0, -2880, 480, -2880>> :> <<3335852, 6828427, 6029312>> @@
     <<0, -2880, 480, -1920>> :> <<7154413, 1329739, 5505024>> @@
     <<0, -2880, 480, -960>> :> <<12860701, 6086392, 14680064>> @@
     <<0, -2880, 480, 0>> :> <<16679262, 587704, 13631488>> @@
     <<0, -2880, 480, 960>> :> <<12860701, 6086392, 14680064>> @@
     <<0, -2880, 480, 1920>> :> <<7154413, 1329739, 6291456>> @@
     <<0, -2880, 480, 2880>> :> <<3335852, 6828427, 6029312>> @@
     <<0, -2880, 960, -2880>> :> <<6671704, 13656854, 12058624>> @@
     <<0, -2880, 960, -1920>> :> <<8397729, 1542187, 6815744>> @@
     <<0, -2880, 960, -960>> :> <<11617385, 5873944, 12582912>> @@
     <<0, -2880, 960, 0>> :> <<13343409, 10536493, 7340032>> @@
     <<0, -2880, 960, 960>> :> <<11617385, 5873944, 12582912>> @@
     <<0, -2880, 960, 1920>> :> <<8397729, 1542187, 7340032>> @@
     <<0, -2880, 960, 2880>> :> <<6671704, 13656854, 12058624>> @@
     <<0, -2880, 1440, -2880>> :> <<10007557, 3708066, 1048576>> @@
     <<0, -2880, 1440, -1920>> :> <<10007557, 3708066, 1048576>> @@
     <<0, -2880, 1440, -960>> :> <<10007557, 3708066, 1048576>> @@
     <<0, -2880, 1440, 0>> :> <<10007557, 3708066, 1048576>>) @@
    (<<0, -2880, 1440, 960>> :> <<10007557, 3708066, 1048576>> @@
     <<0, -2880, 1440, 1920>> :> <<10007557, 3708066, 1048576>> @@
     <<0, -2880, 1440, 2880>> :> <<10007557, 3708066, 1048576>> @@
     <<0, -2880, 0, 480>> :> <<16679262, 587704, 13631488>> @@
     <<0, -2880, 160, 800>> :> <<14374571, 11205030, 6815744>> @@
     <<0, -2880, 8, 0>> :> <<19959516, 15131692, 11534336>> @@
     <<0, -2880, 0, 720>> :> <<15011335, 13950707, 2097152>> @@
     <<0, -2880, 168, 804>> :> <<14339339, 7182482, 2097152>> @@
     <<0, -2880, 720, 1440>> :> <<10007557, 3708066, 1572864>> @@
     <<0, -2880, -480, -2400>> :> <<4604546, 4242633, 4980736>> @@
     <<0, -2880, 0, 240>> :> <<18347188, 4001918, 7340032>> @@
     <<0, -2880, 480, 480>> :> <<15410568, 3173498, 15204352>> @@
     <<0, -2880, -960, 2160>> :> <<7705284, 1586749, 7077888>> @@
     <<0, -2880, 160, 960>> :> <<13287668, 80208, 5767168>> @@
     <<0, -2880, 16, 0>> :> <<19903919, 6070037, 6291456>> @@
     <<0, -2880, 0, 16>> :> <<19903919, 6070037, 6291456>> @@
     <<0, -2880, 0, 32>> :> <<19792724, 4723941, 15728640>> @@
     <<0, -2880, 16, 16>> :> <<19857864, 14152620, 4194304>> @@
     <<0, -2880, 0, 160>> :> <<18903163, 10732395, 1048576>> @@
     <<0, -2880, 160, 0>> :> <<18903163, 10732395, 1048576>>) @@
    (<<0, -2880, 160, 160>> :> <<18446591, 12057860, 4194304>> @@
     <<0, -2880, 720, 720>> :> <<13343409, 10536493, 7340032>> @@
     <<0, -2880, -720, -1440>> :> <<10007557, 3708066, 1572864>> @@
     <<0, -2880, 720, -1440>> :> <<10007557, 3708066, 1572864>> @@
     <<0, -2880, -160, -960>> :> <<13287668, 80208, 5767168>> @@
     <<0, -2880, 0, 1440>> :> <<10007557, 3708066, 1572864>> @@
     <<0, -2880, 0, -1440>> :> <<10007557, 3708066, 1048576>> @@
     <<0, -2880, 1, 1>> :> <<20005286, 1570363, 1048576>> @@
     <<0, -1920, -1440, -2880>> :> <<10007557, 3708066, 1048576>> @@
     <<0, -1920, -1440, -1920>> :> <<10007557, 3708066, 1048576>> @@
     <<0, -1920, -1440, -960>> :> <<10007557, 3708066, 1048576>> @@
     <<0, -1920, -1440, 0>> :> <<10007557, 3708066, 1048576>> @@
     <<0, -1920, -1440, 960>> :> <<10007557, 3708066, 1048576>> @@
     <<0, -1920, -1440, 1920>> :> <<10007557, 3708066, 1048576>> @@
     <<0, -1920, -1440, 2880>> :> <<10007557, 3708066, 1048576>> @@
     <<0, -1920, -960, -2880>> :> <<8397729, 1542187, 6815744>> @@
     <<0, -1920, -960, -1920>> :> <<6671704, 13656854, 12058624>> @@
     <<0, -1920, -960, -960>> :> <<8397729, 1542187, 6815744>> @@
     <<0, -1920, -960, 0>> :> <<11617385, 5873944, 12582912>> @@
     <<0, -1920, -960, 960>> :> <<13343409, 10536493, 7340032>>) @@
    (<<0, -1920, -960, 1920>> :> <<11617385, 5873944, 12582912>> @@
     <<0, -1920, -960, 2880>> :> <<8397729, 1542187, 7340032>> @@
     <<0, -1920, -480, -2880>> :> <<7154413, 1329739, 5505024>> @@
     <<0, -1920, -480, -1920>> :> <<3335852, 6828427, 6029312>> @@
     <<0, -1920, -480, -960>> :> <<7154413, 1329739, 5505024>> @@
     <<0, -1920, -480, 0>> :> <<12860701, 6086392, 14155776>> @@
     <<0, -1920, -480, 960>> :> <<16679262, 587704, 13631488>> @@
     <<0, -1920, -480, 1920>> :> <<12860701, 6086392, 14680064>> @@
     <<0, -1920, -480, 2880>> :> <<7154413, 1329739, 6291456>> @@
     <<0, -1920, 0, -2880>> :> <<6671704, 13656854, 12320768>> @@
     <<0, -1920, 0, -1920>> :> <<0, 0, 0>> @@
     <<0, -1920, 0, -960>> :> <<6671704, 13656854, 12058624>> @@
     <<0, -1920, 0, 0>> :> <<13343409, 10536493, 7340032>> @@
     <<0, -1920, 0, 960>> :> <<20015114, 7416132, 3145728>> @@
     <<0, -1920, 0, 1920>> :> <<13343409, 10536493, 7864320>> @@
     <<0, -1920, 0, 2880>> :> <<6671704, 13656854, 13631488>> @@
     <<0, -1920, 480, -2880>> :> <<7154413, 1329739, 5505024>> @@
     <<0, -1920, 480, -1920>> :> <<3335852, 6828427, 6029312>> @@
     <<0, -1920, 480, -960>> :> <<7154413, 1329739, 5505024>> @@
     <<0, -1920, 480, 0>> :> <<12860701, 6086392, 14155776>>) @@
    (<<0, -1920, 480, 960>> :> <<16679262, 587704, 13631488>> @@
     <<0, -1920, 480, 1920>> :> <<12860701, 6086392, 14680064>> @@
     <<0, -1920, 480, 2880>> :> <<7154413, 1329739, 6291456>> @@
     <<0, -1920, 960, -2880>> :> <<8397729, 1542187, 6815744>> @@
     <<0, -1920, 960, -1920>> :> <<6671704, 13656854, 12058624>> @@
     <<0, -1920, 960, -960>> :> <<8397729, 1542187, 6815744>> @@
     <<0, -1920, 960, 0>> :> <<11617385, 5873944, 12582912>> @@
     <<0, -1920, 960, 960>> :> <<13343409, 10536493, 7340032>> @@
     <<0, -1920, 960, 1920>> :> <<11617385, 5873944, 12582912>> @@
     <<0, -1920, 960, 2880>> :> <<8397729, 1542187, 7340032>> @@
     <<0, -1920, 1440, -2880>> :> <<10007557, 3708066, 1048576>> @@
     <<0, -1920, 1440, -1920>> :> <<10007557, 3708066, 1048576>> @@
     <<0, -1920, 1440, -960>> :> <<10007557, 3708066, 1048576>> @@
     <<0, -1920, 1440, 0>> :> <<10007557, 3708066, 1048576>> @@
     <<0, -1920, 1440, 960>> :> <<10007557, 3708066, 1048576>> @@
     <<0, -1920, 1440, 1920>> :> <<10007557, 3708066, 1048576>> @@
     <<0, -1920, 1440, 2880>> :> <<10007557, 3708066, 1048576>> @@
     <<0, -1920, 0, 480>> :> <<16679262, 587704, 12058624>> @@
     <<0, -1920, 160, 800>> :> <<18446591, 12057860, 4194304>> @@
     <<0, -1920, 8, 0>> :> <<13343269, 9569403, 4718592>>) @@
    (<<0, -1920, 0, 720>> :> <<18347188, 4001918, 7340032>> @@
     <<0, -1920, 168, 804>> :> <<18425982, 510851, 2097152>> @@
     <<0, -1920, 720, 1440>> :> <<14206421, 12867767, 13631488>> @@
     <<0, -1920, -480, -2400>> :> <<4604546, 4242633, 5505024>> @@
     <<0, -1920, 0, 240>> :> <<15011335, 13950707, 2097152>> @@
     <<0, -1920, 480, 480>> :> <<15410568, 3173498, 14155776>> @@
     <<0, -1920, -960, 2160>> :> <<10834345, 2546393, 13631488>> @@
     <<0, -1920, 160, 960>> :> <<18903163, 10732395, 1048576>> @@
     <<0, -1920, 16, 0>> :> <<13342849, 7025992, 9961472>> @@
     <<0, -1920, 0, 16>> :> <<13454604, 11882588, 12058624>> @@
     <<0, -1920, 0, 32>> :> <<13565799, 13228684, 1048576>> @@
     <<0, -1920, 16, 16>> :> <<13454021, 11540996, 7864320>> @@
     <<0, -1920, 0, 160>> :> <<14455360, 7220230, 8912896>> @@
     <<0, -1920, 160, 0>> :> <<13287668, 80208, 5242880>> @@
     <<0, -1920, 160, 160>> :> <<14374571, 11205030, 3670016>> @@
     <<0, -1920, 720, 720>> :> <<14797787, 9831954, 8912896>> @@
     <<0, -1920, -720, -1440>> :> <<5808692, 11325580, 6291456>> @@
     <<0, -1920, 720, -1440>> :> <<5808692, 11325580, 6291456>> @@
     <<0, -1920, -160, -960>> :> <<6727446, 7335923, 13369344>> @@
     <<0, -1920, 0, 1440>> :> <<16679262, 587704, 13631488>>) @@
    (<<0, -1920, 0, -1440>> :> <<3335852, 6828427, 5767168>> @@
     <<0, -1920, 1, 1>> :> <<13350357, 2123895, 9961472>> @@
     <<0, -960, -1440, -2880>> :> <<10007557, 3708066, 1048576>> @@
     <<0, -960, -1440, -1920>> :> <<10007557, 3708066, 1048576>> @@
     <<0, -960, -1440, -960>> :> <<10007557, 3708066, 1048576>> @@
     <<0, -960, -1440, 0>> :> <<10007557, 3708066, 1048576>> @@
     <<0, -960, -1440, 960>> :> <<10007557, 3708066, 1048576>> @@
     <<0, -960, -1440, 1920>> :> <<10007557, 3708066, 1048576>> @@
     <<0, -960, -1440, 2880>> :> <<10007557, 3708066, 1048576>> @@
     <<0, -960, -960, -2880>> :> <<11617385, 5873944, 12582912>> @@
     <<0, -960, -960, -1920>> :> <<8397729, 1542187, 6815744>> @@
     <<0, -960, -960, -960>> :> <<6671704, 13656854, 12058624>> @@
     <<0, -960, -960, 0>> :> <<8397729, 1542187, 6815744>> @@
     <<0, -960, -960, 960>> :> <<11617385, 5873944, 12582912>> @@
     <<0, -960, -960, 1920>> :> <<13343409, 10536493, 7340032>> @@
     <<0, -960, -960, 2880>> :> <<11617385, 5873944, 12582912>> @@
     <<0, -960, -480, -2880>> :> <<12860701, 6086392, 14680064>> @@
     <<0, -960, -480, -1920>> :> <<7154413, 1329739, 5505024>> @@
     <<0, -960, -480, -960>> :> <<3335852, 6828427, 6029312>> @@
     <<0, -960, -480, 0>> :> <<7154413, 1329739, 5505024>>) @@
    (<<0, -960, -480, 960>> :> <<12860701, 6086392, 14155776>> @@
     <<0, -960, -480, 1920>> :> <<16679262, 587704, 13631488>> @@
     <<0, -960, -480, 2880>> :> <<12860701, 6086392, 14680064>> @@
     <<0, -960, 0, -2880>> :> <<13343409, 10536493, 7864320>> @@
     <<0, -960, 0, -1920>> :> <<6671704, 13656854, 12058624>> @@
     <<0, -960, 0, -960>> :> <<0, 0, 0>> @@
     <<0, -960, 0, 0>> :> <<6671704, 13656854, 12058624>> @@
     <<0, -960, 0, 960>> :> <<13343409, 10536493, 7340032>> @@
     <<0, -960, 0, 1920>> :> <<20015114, 7416132, 3145728>> @@
     <<0, -960, 0, 2880>> :> <<13343409, 10536493, 7864320>> @@
     <<0, -960, 480, -2880>> :> <<12860701, 6086392, 14680064>> @@
     <<0, -960, 480, -1920>> :> <<7154413, 1329739, 5505024>> @@
     <<0, -960, 480, -960>> :> <<3335852, 6828427, 6029312>> @@
     <<0, -960, 480, 0>> :> <<7154413, 1329739, 5505024>> @@
     <<0, -960, 480, 960>> :> <<12860701, 6086392, 14155776>> @@
     <<0, -960, 480, 1920>> :> <<16679262, 587704, 13631488>> @@
     <<0, -960, 480, 2880>> :> <<12860701, 6086392, 14680064>> @@
     <<0, -960, 960, -2880>> :> <<11617385, 5873944, 12582912>> @@
     <<0, -960, 960, -1920>> :> <<8397729, 1542187, 6815744>> @@
     <<0, -960, 960, -960>> :> <<6671704, 13656854, 12058624>>) @@
    (<<0, -960, 960, 0>> :> <<8397729, 1542187, 6815744>> @@
     <<0, -960, 960, 960>> :> <<11617385, 5873944, 12582912>> @@
     <<0, -960, 960, 1920>> :> <<13343409, 10536493, 7340032>> @@
     <<0, -960, 960, 2880>> :> <<11617385, 5873944, 12582912>> @@
     <<0, -960, 1440, -2880>> :> <<10007557, 3708066, 1048576>> @@
     <<0, -960, 1440, -1920>> :> <<10007557, 3708066, 1048576>> @@
     <<0, -960, 1440, -960>> :> <<10007557, 3708066, 1048576>> @@
     <<0, -960, 1440, 0>> :> <<10007557, 3708066, 1048576>> @@
     <<0, -960, 1440, 960>> :> <<10007557, 3708066, 1048576>> @@
     <<0, -960, 1440, 1920>> :> <<10007557, 3708066, 1048576>> @@
     <<0, -960, 1440, 2880>> :> <<10007557, 3708066, 1048576>> @@
     <<0, -960, 0, 480>> :> <<10007557, 3708066, 1048576>> @@
     <<0, -960, 160, 800>> :> <<12196265, 6194734, 11010048>> @@
     <<0, -960, 8, 0>> :> <<6671844, 14623944, 14417920>> @@
     <<0, -960, 0, 720>> :> <<11675483, 7122279, 13107200>> @@
     <<0, -960, 168, 804>> :> <<12219944, 10205239, 1048576>> @@
     <<0, -960, 720, 1440>> :> <<14206421, 12867767, 13631488>> @@
     <<0, -960, -480, -2400>> :> <<10007557, 3708066, 1572864>> @@
     <<0, -960, 0, 240>> :> <<8339631, 293852, 6553600>> @@
     <<0, -960, 480, 480>> :> <<10007557, 3708066, 1048576>>) @@
    (<<0, -960, -960, 2160>> :> <<13218770, 6666553, 12058624>> @@
     <<0, -960, 160, 960>> :> <<13287668, 80208, 5242880>> @@
     <<0, -960, 16, 0>> :> <<6672265, 390139, 8650752>> @@
     <<0, -960, 0, 16>> :> <<6782899, 15002950, 524288>> @@
     <<0, -960, 0, 32>> :> <<6894094, 16349045, 5767168>> @@
     <<0, -960, 16, 16>> :> <<6783437, 12539483, 15466496>> @@
     <<0, -960, 0, 160>> :> <<7783655, 10340591, 13893632>> @@
     <<0, -960, 160, 0>> :> <<6727446, 7335923, 13369344>> @@
     <<0, -960, 160, 160>> :> <<7818849, 1221397, 8650752>> @@
     <<0, -960, 720, 720>> :> <<11180141, 10975709, 14155776>> @@
     <<0, -960, -720, -1440>> :> <<5808692, 11325580, 6291456>> @@
     <<0, -960, 720, -1440>> :> <<5808692, 11325580, 6291456>> @@
     <<0, -960, -160, -960>> :> <<1111950, 13460953, 2031616>> @@
     <<0, -960, 0, 1440>> :> <<16679262, 587704, 12058624>> @@
     <<0, -960, 0, -1440>> :> <<3335852, 6828427, 6160384>> @@
     <<0, -960, 1, 1>> :> <<6678656, 11566968, 5505024>> @@
     <<0, 0, -1440, -2880>> :> <<10007557, 3708066, 1048576>> @@
     <<0, 0, -1440, -1920>> :> <<10007557, 3708066, 1048576>> @@
     <<0, 0, -1440, -960>> :> <<10007557, 3708066, 1048576>> @@
     <<0, 0, -1440, 0>> :> <<10007557, 3708066, 1048576>>) @@
    (<<0, 0, -1440, 960>> :> <<10007557, 3708066, 1048576>> @@
     <<0, 0, -1440, 1920>> :> <<10007557, 3708066, 1048576>> @@
     <<0, 0, -1440, 2880>> :> <<10007557, 3708066, 1048576>> @@
     <<0, 0, -960, -2880>> :> <<13343409, 10536493, 7340032>> @@
     <<0, 0, -960, -1920>> :> <<11617385, 5873944, 12582912>> @@
     <<0, 0, -960, -960>> :> <<8397729, 1542187, 6815744>> @@
     <<0, 0, -960, 0>> :> <<6671704, 13656854, 12058624>> @@
     <<0, 0, -960, 960>> :> <<8397729, 1542187, 6815744>> @@
     <<0, 0, -960, 1920>> :> <<11617385, 5873944, 12582912>> @@
     <<0, 0, -960, 2880>> :> <<13343409, 10536493, 7340032>> @@
     <<0, 0, -480, -2880>> :> <<16679262, 587704, 13631488>> @@
     <<0, 0, -480, -1920>> :> <<12860701, 6086392, 14155776>> @@
     <<0, 0, -480, -960>> :> <<7154413, 1329739, 5505024>> @@
     <<0, 0, -480, 0>> :> <<3335852, 6828427, 6029312>> @@
     <<0, 0, -480, 960>> :> <<7154413, 1329739, 5505024>> @@
     <<0, 0, -480, 1920>> :> <<12860701, 6086392, 14155776>> @@
     <<0, 0, -480, 2880>> :> <<16679262, 587704, 13631488>> @@
     <<0, 0, 0, -2880>> :> <<20015114, 7416132, 3145728>> @@
     <<0, 0, 0, -1920>> :> <<13343409, 10536493, 7340032>> @@
     <<0, 0, 0, -960>> :> <<6671704, 13656854, 12058624>>) @@
    (<<0, 0, 0, 0>> :> <<0, 0, 0>> @@
     <<0, 0, 0, 960>> :> <<6671704, 13656854, 12058624>> @@
     <<0, 0, 0, 1920>> :> <<13343409, 10536493, 7340032>> @@
     <<0, 0, 0, 2880>> :> <<20015114, 7416132, 3145728>> @@
     <<0, 0, 480, -2880>> :> <<16679262, 587704, 13631488>> @@
     <<0, 0, 480, -1920>> :> <<12860701, 6086392, 14155776>> @@
     <<0, 0, 480, -960>> :> <<7154413, 1329739, 5505024>> @@
     <<0, 0, 480, 0>> :> <<3335852, 6828427, 6029312>> @@
     <<0, 0, 480, 960>> :> <<7154413, 1329739, 5505024>> @@
     <<0, 0, 480, 1920>> :> <<12860701, 6086392, 14155776>> @@
     <<0, 0, 480, 2880>> :> <<16679262, 587704, 13631488>> @@
     <<0, 0, 960, -2880>> :> <<13343409, 10536493, 7340032>> @@
     <<0, 0, 960, -1920>> :> <<11617385, 5873944, 12582912>> @@
     <<0, 0, 960, -960>> :> <<8397729, 1542187, 6815744>> @@
     <<0, 0, 960, 0>> :> <<6671704, 13656854, 12058624>> @@
     <<0, 0, 960, 960>> :> <<8397729, 1542187, 6815744>> @@
     <<0, 0, 960, 1920>> :> <<11617385, 5873944, 12582912>> @@
     <<0, 0, 960, 2880>> :> <<13343409, 10536493, 7340032>> @@
     <<0, 0, 1440, -2880>> :> <<10007557, 3708066, 1048576>> @@
     <<0, 0, 1440, -1920>> :> <<10007557, 3708066, 1048576>>) @@
    (<<0, 0, 1440, -960>> :> <<10007557, 3708066, 1048576>> @@
     <<0, 0, 1440, 0>> :> <<10007557, 3708066, 1048576>> @@
     <<0, 0, 1440, 960>> :> <<10007557, 3708066, 1048576>> @@
     <<0, 0, 1440, 1920>> :> <<10007557, 3708066, 1048576>> @@
     <<0, 0, 1440, 2880>> :> <<10007557, 3708066, 1048576>> @@
     <<0, 0, 0, 480>> :> <<3335852, 6828427, 6029312>> @@
     <<0, 0, 160, 800>> :> <<5640542, 12988317, 13893632>> @@
     <<0, 0, 8, 0>> :> <<55597, 9061655, 11005952>> @@
     <<0, 0, 0, 720>> :> <<5003778, 10242641, 786432>> @@
     <<0, 0, 168, 804>> :> <<5675775, 233650, 1835008>> @@
     <<0, 0, 720, 1440>> :> <<10007557, 3708066, 1572864>> @@
     <<0, 0, -480, -2400>> :> <<15410568, 3173498, 15204352>> @@
     <<0, 0, 0, 240>> :> <<1667926, 3414213, 11403264>> @@
     <<0, 0, 480, 480>> :> <<4604546, 4242633, 5242880>> @@
     <<0, 0, -960, 2160>> :> <<12309830, 5829382, 12582912>> @@
     <<0, 0, 160, 960>> :> <<6727446, 7335923, 13369344>> @@
     <<0, 0, 16, 0>> :> <<111195, 1346095, 5234688>> @@
     <<0, 0, 0, 16>> :> <<111195, 1346095, 5234688>> @@
     <<0, 0, 0, 32>> :> <<222390, 2692190, 10469376>> @@
     <<0, 0, 16, 16>> :> <<157249, 10040728, 4079616>>) @@
    (<<0, 0, 0, 160>> :> <<1111950, 13460953, 2031616>> @@
     <<0, 0, 160, 0>> :> <<1111950, 13460953, 2031616>> @@
     <<0, 0, 160, 160>> :> <<1568522, 12135487, 14548992>> @@
     <<0, 0, 720, 720>> :> <<6671704, 13656854, 12320768>> @@
     <<0, 0, -720, -1440>> :> <<10007557, 3708066, 1572864>> @@
     <<0, 0, 720, -1440>> :> <<10007557, 3708066, 1572864>> @@
     <<0, 0, -160, -960>> :> <<6727446, 7335923, 13369344>> @@
     <<0, 0, 0, 1440>> :> <<10007557, 3708066, 1048576>> @@
     <<0, 0, 0, -1440>> :> <<10007557, 3708066, 1048576>> @@
     <<0, 0, 1, 1>> :> <<9828, 5845750, 11079680>> @@
     <<0, 960, -1440, -2880>> :> <<10007557, 3708066, 1048576>> @@
     <<0, 960, -1440, -1920>> :> <<10007557, 3708066, 1048576>> @@
     <<0, 960, -1440, -960>> :> <<10007557, 3708066, 1048576>> @@
     <<0, 960, -1440, 0>> :> <<10007557, 3708066, 1048576>> @@
     <<0, 960, -1440, 960>> :> <<10007557, 3708066, 1048576>> @@
     <<0, 960, -1440, 1920>> :> <<10007557, 3708066, 1048576>> @@
     <<0, 960, -1440, 2880>> :> <<10007557, 3708066, 1048576>> @@
     <<0, 960, -960, -2880>> :> <<11617385, 5873944, 12582912>> @@
     <<0, 960, -960, -1920>> :> <<13343409, 10536493, 7340032>> @@
     <<0, 960, -960, -960>> :> <<11617385, 5873944, 12582912>>) @@
    (<<0, 960, -960, 0>> :> <<8397729, 1542187, 6815744>> @@
     <<0, 960, -960, 960>> :> <<6671704, 13656854, 12058624>> @@
     <<0, 960, -960, 1920>> :> <<8397729, 1542187, 6815744>> @@
     <<0, 960, -960, 2880>> :> <<11617385, 5873944, 12582912>> @@
     <<0, 960, -480, -2880>> :> <<12860701, 6086392, 14680064>> @@
     <<0, 960, -480, -1920>> :> <<16679262, 587704, 13631488>> @@
     <<0, 960, -480, -960>> :> <<12860701, 6086392, 14155776>> @@
     <<0, 960, -480, 0>> :> <<7154413, 1329739, 5505024>> @@
     <<0, 960, -480, 960>> :> <<3335852, 6828427, 6029312>> @@
     <<0, 960, -480, 1920>> :> <<7154413, 1329739, 5505024>> @@
     <<0, 960, -480, 2880>> :> <<12860701, 6086392, 14680064>> @@
     <<0, 960, 0, -2880>> :> <<13343409, 10536493, 7864320>> @@
     <<0, 960, 0, -1920>> :> <<20015114, 7416132, 3145728>> @@
     <<0, 960, 0, -960>> :> <<13343409, 10536493, 7340032>> @@
     <<0, 960, 0, 0>> :> <<6671704, 13656854, 12058624>> @@
     <<0, 960, 0, 960>> :> <<0, 0, 0>> @@
     <<0, 960, 0, 1920>> :> <<6671704, 13656854, 12058624>> @@
     <<0, 960, 0, 2880>> :> <<13343409, 10536493, 7864320>> @@
     <<0, 960, 480, -2880>> :> <<12860701, 6086392, 14680064>> @@
     <<0, 960, 480, -1920>> :> <<16679262, 587704, 13631488>>) @@
    (<<0, 960, 480, -960>> :> <<12860701, 6086392, 14155776>> @@
     <<0, 960, 480, 0>> :> <<7154413, 1329739, 5505024>> @@
     <<0, 960, 480, 960>> :> <<3335852, 6828427, 6029312>> @@
     <<0, 960, 480, 1920>> :> <<7154413, 1329739, 5505024>> @@
     <<0, 960, 480, 2880>> :> <<12860701, 6086392, 14680064>> @@
     <<0, 960, 960, -2880>> :> <<11617385, 5873944, 12582912>> @@
     <<0, 960, 960, -1920>> :> <<13343409, 10536493, 7340032>> @@
     <<0, 960, 960, -960>> :> <<11617385, 5873944, 12582912>> @@
     <<0, 960, 960, 0>> :> <<8397729, 1542187, 6815744>> @@
     <<0, 960, 960, 960>> :> <<6671704, 13656854, 12058624>> @@
     <<0, 960, 960, 1920>> :> <<8397729, 1542187, 6815744>> @@
     <<0, 960, 960, 2880>> :> <<11617385, 5873944, 12582912>> @@
     <<0, 960, 1440, -2880>> :> <<10007557, 3708066, 1048576>> @@
     <<0, 960, 1440, -1920>> :> <<10007557, 3708066, 1048576>> @@
     <<0, 960, 1440, -960>> :> <<10007557, 3708066, 1048576>> @@
     <<0, 960, 1440, 0>> :> <<10007557, 3708066, 1048576>> @@
     <<0, 960, 1440, 960>> :> <<10007557, 3708066, 1048576>> @@
     <<0, 960, 1440, 1920>> :> <<10007557, 3708066, 1048576>> @@
     <<0, 960, 1440, 2880>> :> <<10007557, 3708066, 1048576>> @@
     <<0, 960, 0, 480>> :> <<3335852, 6828427, 6029312>>) @@
    (<<0, 960, 160, 800>> :> <<1568522, 12135487, 14417920>> @@
     <<0, 960, 8, 0>> :> <<6671844, 14623944, 14417920>> @@
     <<0, 960, 0, 720>> :> <<1667926, 3414213, 11272192>> @@
     <<0, 960, 168, 804>> :> <<1589132, 6905281, 1179648>> @@
     <<0, 960, 720, 1440>> :> <<5808692, 11325580, 6291456>> @@
     <<0, 960, -480, -2400>> :> <<15410568, 3173498, 15204352>> @@
     <<0, 960, 0, 240>> :> <<5003778, 10242641, 786432>> @@
     <<0, 960, 480, 480>> :> <<4604546, 4242633, 5242880>> @@
     <<0, 960, -960, 2160>> :> <<9180769, 4869738, 6291456>> @@
     <<0, 960, 160, 960>> :> <<1111950, 13460953, 2031616>> @@
     <<0, 960, 16, 0>> :> <<6672265, 390139, 8650752>> @@
     <<0, 960, 0, 16>> :> <<6560509, 12310759, 6553600>> @@
     <<0, 960, 0, 32>> :> <<6449314, 10964664, 1310720>> @@
     <<0, 960, 16, 16>> :> <<6561092, 12652351, 10223616>> @@
     <<0, 960, 0, 160>> :> <<5559754, 195901, 9961472>> @@
     <<0, 960, 160, 0>> :> <<6727446, 7335923, 13369344>> @@
     <<0, 960, 160, 160>> :> <<5640542, 12988317, 13369344>> @@
     <<0, 960, 720, 720>> :> <<5217326, 14361393, 10747904>> @@
     <<0, 960, -720, -1440>> :> <<14206421, 12867767, 13631488>> @@
     <<0, 960, 720, -1440>> :> <<14206421, 12867767, 13631488>>) @@
    (<<0, 960, -160, -960>> :> <<13287668, 80208, 5242880>> @@
     <<0, 960, 0, 1440>> :> <<3335852, 6828427, 6160384>> @@
     <<0, 960, 0, -1440>> :> <<16679262, 587704, 12058624>> @@
     <<0, 960, 1, 1>> :> <<6664757, 5292236, 9699328>> @@
     <<0, 1920, -1440, -2880>> :> <<10007557, 3708066, 1048576>> @@
     <<0, 1920, -1440, -1920>> :> <<10007557, 3708066, 1048576>> @@
     <<0, 1920, -1440, -960>> :> <<10007557, 3708066, 1048576>> @@
     <<0, 1920, -1440, 0>> :> <<10007557, 3708066, 1048576>> @@
     <<0, 1920, -1440, 960>> :> <<10007557, 3708066, 1048576>> @@
     <<0, 1920, -1440, 1920>> :> <<10007557, 3708066, 1048576>> @@
     <<0, 1920, -1440, 2880>> :> <<10007557, 3708066, 1048576>> @@
     <<0, 1920, -960, -2880>> :> <<8397729, 1542187, 7340032>> @@
     <<0, 1920, -960, -1920>> :> <<11617385, 5873944, 12582912>> @@
     <<0, 1920, -960, -960>> :> <<13343409, 10536493, 7340032>> @@
     <<0, 1920, -960, 0>> :> <<11617385, 5873944, 12582912>> @@
     <<0, 1920, -960, 960>> :> <<8397729, 1542187, 6815744>> @@
     <<0, 1920, -960, 1920>> :> <<6671704, 13656854, 12058624>> @@
     <<0, 1920, -960, 2880>> :> <<8397729, 1542187, 6815744>> @@
     <<0, 1920, -480, -2880>> :> <<7154413, 1329739, 6291456>> @@
     <<0, 1920, -480, -1920>> :> <<12860701, 6086392, 14680064>>) @@
    (<<0, 1920, -480, -960>> :> <<16679262, 587704, 13631488>> @@
     <<0, 1920, -480, 0>> :> <<12860701, 6086392, 14155776>> @@
     <<0, 1920, -480, 960>> :> <<7154413, 1329739, 5505024>> @@
     <<0, 1920, -480, 1920>> :> <<3335852, 6828427, 6029312>> @@
     <<0, 1920, -480, 2880>> :> <<7154413, 1329739, 5505024>> @@
     <<0, 1920, 0, -2880>> :> <<6671704, 13656854, 13631488>> @@
     <<0, 1920, 0, -1920>> :> <<13343409, 10536493, 7864320>> @@
     <<0, 1920, 0, -960>> :> <<20015114, 7416132, 3145728>> @@
     <<0, 1920, 0, 0>> :> <<13343409, 10536493, 7340032>> @@
     <<0, 1920, 0, 960>> :> <<6671704, 13656854, 12058624>> @@
     <<0, 1920, 0, 1920>> :> <<0, 0, 0>> @@
     <<0, 1920, 0, 2880>> :> <<6671704, 13656854, 12320768>> @@
     <<0, 1920, 480, -2880>> :> <<7154413, 1329739, 6291456>> @@
     <<0, 1920, 480, -1920>> :> <<12860701, 6086392, 14680064>> @@
     <<0, 1920, 480, -960>> :> <<16679262, 587704, 13631488>> @@
     <<0, 1920, 480, 0>> :> <<12860701, 6086392, 14155776>> @@
     <<0, 1920, 480, 960>> :> <<7154413, 1329739, 5505024>> @@
     <<0, 1920, 480, 1920>> :> <<3335852, 6828427, 6029312>> @@
     <<0, 1920, 480, 2880>> :> <<7154413, 1329739, 5505024>> @@
     <<0, 1920, 960, -2880>> :> <<8397729, 1542187, 7340032>>) @@
    (<<0, 1920, 960, -1920>> :> <<11617385, 5873944, 12582912>> @@
     <<0, 1920, 960, -960>> :> <<13343409, 10536493, 7340032>> @@
     <<0, 1920, 960, 0>> :> <<11617385, 5873944, 12582912>> @@
     <<0, 1920, 960, 960>> :> <<8397729, 1542187, 6815744>> @@
     <<0, 1920, 960, 1920>> :> <<6671704, 13656854, 12058624>> @@
     <<0, 1920, 960, 2880>> :> <<8397729, 1542187, 6815744>> @@
     <<0, 1920, 1440, -2880>> :> <<10007557, 3708066, 1048576>> @@
     <<0, 1920, 1440, -1920>> :> <<10007557, 3708066, 1048576>> @@
     <<0, 1920, 1440, -960>> :> <<10007557, 3708066, 1048576>> @@
     <<0, 1920, 1440, 0>> :> <<10007557, 3708066, 1048576>> @@
     <<0, 1920, 1440, 960>> :> <<10007557, 3708066, 1048576>> @@
     <<0, 1920, 1440, 1920>> :> <<10007557, 3708066, 1048576>> @@
     <<0, 1920, 1440, 2880>> :> <<10007557, 3708066, 1048576>> @@
     <<0, 1920, 0, 480>> :> <<10007557, 3708066, 1048576>> @@
     <<0, 1920, 160, 800>> :> <<7818849, 1221397, 8650752>> @@
     <<0, 1920, 8, 0>> :> <<13343269, 9569403, 4718592>> @@
     <<0, 1920, 0, 720>> :> <<8339631, 293852, 6553600>> @@
     <<0, 1920, 168, 804>> :> <<7795169, 13988109, 1835008>> @@
     <<0, 1920, 720, 1440>> :> <<5808692, 11325580, 6291456>> @@
     <<0, 1920, -480, -2400>> :> <<10007557, 3708066, 1572864>>) @@
    (<<0, 1920, 0, 240>> :> <<11675483, 7122279, 13107200>> @@
     <<0, 1920, 480, 480>> :> <<10007557, 3708066, 1048576>> @@
     <<0, 1920, -960, 2160>> :> <<6796344, 749578, 8126464>> @@
     <<0, 1920, 160, 960>> :> <<6727446, 7335923, 13369344>> @@
     <<0, 1920, 16, 0>> :> <<13342849, 7025992, 9961472>> @@
     <<0, 1920, 0, 16>> :> <<13232214, 9190398, 2097152>> @@
     <<0, 1920, 0, 32>> :> <<13121019, 7844302, 13107200>> @@
     <<0, 1920, 16, 16>> :> <<13231676, 11653864, 3145728>> @@
     <<0, 1920, 0, 160>> :> <<12231458, 13852756, 5242880>> @@
     <<0, 1920, 160, 0>> :> <<13287668, 80208, 5242880>> @@
     <<0, 1920, 160, 160>> :> <<12196265, 6194734, 9961472>> @@
     <<0, 1920, 720, 720>> :> <<8834972, 13217638, 6291456>> @@
     <<0, 1920, -720, -1440>> :> <<14206421, 12867767, 13631488>> @@
     <<0, 1920, 720, -1440>> :> <<14206421, 12867767, 13631488>> @@
     <<0, 1920, -160, -960>> :> <<18903163, 10732395, 1048576>> @@
     <<0, 1920, 0, 1440>> :> <<3335852, 6828427, 5767168>> @@
     <<0, 1920, 0, -1440>> :> <<16679262, 587704, 13631488>> @@
     <<0, 1920, 1, 1>> :> <<13336457, 12626379, 12058624>> @@
     <<0, 2880, -1440, -2880>> :> <<10007557, 3708066, 1048576>> @@
     <<0, 2880, -1440, -1920>> :> <<10007557, 3708066, 1048576>>) @@
    (<<0, 2880, -1440, -960>> :> <<10007557, 3708066, 1048576>> @@
     <<0, 2880, -1440, 0>> :> <<10007557, 3708066, 1048576>> @@
     <<0, 2880, -1440, 960>> :> <<10007557, 3708066, 1048576>> @@
     <<0, 2880, -1440, 1920>> :> <<10007557, 3708066, 1048576>> @@
     <<0, 2880, -1440, 2880>> :> <<10007557, 3708066, 1048576>> @@
     <<0, 2880, -960, -2880>> :> <<6671704, 13656854, 12058624>> @@
     <<0, 2880, -960, -1920>> :> <<8397729, 1542187, 7340032>> @@
     <<0, 2880, -960, -960>> :> <<11617385, 5873944, 12582912>> @@
     <<0, 2880, -960, 0>> :> <<13343409, 10536493, 7340032>> @@
     <<0, 2880, -960, 960>> :> <<11617385, 5873944, 12582912>> @@
     <<0, 2880, -960, 1920>> :> <<8397729, 1542187, 6815744>> @@
     <<0, 2880, -960, 2880>> :> <<6671704, 13656854, 12058624>> @@
     <<0, 2880, -480, -2880>> :> <<3335852, 6828427, 6029312>> @@
     <<0, 2880, -480, -1920>> :> <<7154413, 1329739, 6291456>> @@
     <<0, 2880, -480, -960>> :> <<12860701, 6086392, 14680064>> @@
     <<0, 2880, -480, 0>> :> <<16679262, 587704, 13631488>> @@
     <<0, 2880, -480, 960>> :> <<12860701, 6086392, 14680064>> @@
     <<0, 2880, -480, 1920>> :> <<7154413, 1329739, 5505024>> @@
     <<0, 2880, -480, 2880>> :> <<3335852, 6828427, 6029312>> @@
     <<0, 2880, 0, -2880>> :> <<0, 0, 439226, 13640872, 7274496>>) @@
    (<<0, 2880, 0, -1920>> :> <<6671704, 13656854, 13631488>> @@
     <<0, 2880, 0, -960>> :> <<13343409, 10536493, 7864320>> @@
     <<0, 2880, 0, 0>> :> <<20015114, 7416132, 3145728>> @@
     <<0, 2880, 0, 960>> :> <<13343409, 10536493, 7864320>> @@
     <<0, 2880, 0, 1920>> :> <<6671704, 13656854, 12320768>> @@
     <<0, 2880, 0, 2880>> :> <<0, 0, 0>> @@
     <<0, 2880, 480, -2880>> :> <<3335852, 6828427, 6029312>> @@
     <<0, 2880, 480, -1920>> :> <<7154413, 1329739, 6291456>> @@
     <<0, 2880, 480, -960>> :> <<12860701, 6086392, 14680064>> @@
     <<0, 2880, 480, 0>> :> <<16679262, 587704, 13631488>> @@
     <<0, 2880, 480, 960>> :> <<12860701, 6086392, 14680064>> @@
     <<0, 2880, 480, 1920>> :> <<7154413, 1329739, 5505024>> @@
     <<0, 2880, 480, 2880>> :> <<3335852, 6828427, 6029312>> @@
     <<0, 2880, 960, -2880>> :> <<6671704, 13656854, 12058624>> @@
     <<0, 2880, 960, -1920>> :> <<8397729, 1542187, 7340032>> @@
     <<0, 2880, 960, -960>> :> <<11617385, 5873944, 12582912>> @@
     <<0, 2880, 960, 0>> :> <<13343409, 10536493, 7340032>> @@
     <<0, 2880, 960, 960>> :> <<11617385, 5873944, 12582912>> @@
     <<0, 2880, 960, 1920>> :> <<8397729, 1542187, 6815744>> @@
     <<0, 2880, 960, 2880>> :> <<6671704, 13656854, 12058624>>) @@
    (<<0, 2880, 1440, -2880>> :> <<10007557, 3708066, 1048576>> @@
     <<0, 2880, 1440, -1920>> :> <<10007557, 3708066, 1048576>> @@
     <<0, 2880, 1440, -960>> :> <<10007557, 3708066, 1048576>> @@
     <<0, 2880, 1440, 0>> :> <<10007557, 3708066, 1048576>> @@
     <<0, 2880, 1440, 960>> :> <<10007557, 3708066, 1048576>> @@
     <<0, 2880, 1440, 1920>> :> <<10007557, 3708066, 1048576>> @@
     <<0, 2880, 1440, 2880>> :> <<10007557, 3708066, 1048576>> @@
     <<0, 2880, 0, 480>> :> <<16679262, 587704, 13631488>> @@
     <<0, 2880, 160, 800>> :> <<14374571, 11205030, 5242880>> @@
     <<0, 2880, 8, 0>> :> <<19959516, 15131692, 11534336>> @@
     <<0, 2880, 0, 720>> :> <<15011335, 13950707, 2097152>> @@
     <<0, 2880, 168, 804>> :> <<14339339, 7182482, 524288>> @@
     <<0, 2880, 720, 1440>> :> <<10007557, 3708066, 1572864>> @@
     <<0, 2880, -480, -2400>> :> <<4604546, 4242633, 4718592>> @@
     <<0, 2880, 0, 240>> :> <<18347188, 4001918, 7340032>> @@
     <<0, 2880, 480, 480>> :> <<15410568, 3173498, 15204352>> @@
     <<0, 2880, -960, 2160>> :> <<7705284, 1586749, 7077888>> @@
     <<0, 2880, 160, 960>> :> <<13287668, 80208, 5767168>> @@
     <<0, 2880, 16, 0>> :> <<19903919, 6070037, 6291456>> @@
     <<0, 2880, 0, 16>> :> <<19903919, 6070037, 6291456>>) @@
    (<<0, 2880, 0, 32>> :> <<19792724, 4723941, 15728640>> @@
     <<0, 2880, 16, 16>> :> <<19857864, 14152620, 4194304>> @@
     <<0, 2880, 0, 160>> :> <<18903163, 10732395, 1048576>> @@
     <<0, 2880, 160, 0>> :> <<18903163, 10732395, 1048576>> @@
     <<0, 2880, 160, 160>> :> <<18446591, 12057860, 4194304>> @@
     <<0, 2880, 720, 720>> :> <<13343409, 10536493, 7340032>> @@
     <<0, 2880, -720, -1440>> :> <<10007557, 3708066, 1572864>> @@
     <<0, 2880, 720, -1440>> :> <<10007557, 3708066, 1572864>> @@
     <<0, 2880, -160, -960>> :> <<13287668, 80208, 5767168>> @@
     <<0, 2880, 0, 1440>> :> <<10007557, 3708066, 1048576>> @@
     <<0, 2880, 0, -1440>> :> <<10007557, 3708066, 1572864>> @@
     <<0, 2880, 1, 1>> :> <<20005286, 1570363, 1048576>> @@
     <<480, -2880, -1440, -2880>> :> <<13343409, 10536493, 7340032>> @@
     <<480, -2880, -1440, -1920>> :> <<13343409, 10536493, 7340032>> @@
     <<480, -2880, -1440, -960>> :> <<13343409, 10536493, 7340032>> @@
     <<480, -2880, -1440, 0>> :> <<13343409, 10536493, 7340032>> @@
     <<480, -2880, -1440, 960>> :> <<13343409, 10536493, 7340032>> @@
     <<480, -2880, -1440, 1920>> :> <<13343409, 10536493, 7340032>> @@
     <<480, -2880, -1440, 2880>> :> <<13343409, 10536493, 7340032>> @@
     <<480, -2880, -960, -2880>> :> <<10007557, 3708066, 1048576>>) @@
    (<<480, -2880, -960, -1920>> :> <<11397931, 3900984, 2621440>> @@
     <<480, -2880, -960, -960>> :> <<14511552, 15108933, 13107200>> @@
     <<480, -2880, -960, 0>> :> <<16679262, 587704, 13631488>> @@
     <<480, -2880, -960, 960>> :> <<14511552, 15108933, 13107200>> @@
     <<480, -2880, -960, 1920>> :> <<11397931, 3900984, 2621440>> @@
     <<480, -2880, -960, 2880>> :> <<10007557, 3708066, 1048576>> @@
     <<480, -2880, -480, -2880>> :> <<6671704, 13656854, 12058624>> @@
     <<480, -2880, -480, -1920>> :> <<9209092, 8485266, 10485760>> @@
     <<480, -2880, -480, -960>> :> <<14308826, 2659478, 12058624>> @@
     <<480, -2880, -480, 0>> :> <<20015114, 7416132, 3145728>> @@
     <<480, -2880, -480, 960>> :> <<14308826, 2659478, 12058624>> @@
     <<480, -2880, -480, 1920>> :> <<9209092, 8485266, 11010048>> @@
     <<480, -2880, -480, 2880>> :> <<6671704, 13656854, 12058624>> @@
     <<480, -2880, 0, -2880>> :> <<3335852, 6828427, 6029312>> @@
     <<480, -2880, 0, -1920>> :> <<7154413, 1329739, 5505024>> @@
     <<480, -2880, 0, -960>> :> <<12860701, 6086392, 14680064>> @@
     <<480, -2880, 0, 0>> :> <<16679262, 587704, 13631488>> @@
     <<480, -2880, 0, 960>> :> <<12860701, 6086392, 14680064>> @@
     <<480, -2880, 0, 1920>> :> <<7154413, 1329739, 6291456>> @@
     <<480, -2880, 0, 2880>> :> <<3335852, 6828427, 6029312>>) @@
    (<<480, -2880, 480, -2880>> :> <<0, 0, 0>> @@
     <<480, -2880, 480, -1920>> :> <<5706288, 4756653, 8912896>> @@
     <<480, -2880, 480, -960>> :> <<10806021, 15708081, 9961472>> @@
     <<480, -2880, 480, 0>> :> <<13343409, 10536493, 7864320>> @@
     <<480, -2880, 480, 960>> :> <<10806021, 15708081, 9961472>> @@
     <<480, -2880, 480, 1920>> :> <<5706288, 4756653, 9961472>> @@
     <<480, -2880, 480, 2880>> :> <<0, 0, 380381, 9699456, 14467072>> @@
     <<480, -2880, 960, -2880>> :> <<3335852, 6828427, 6029312>> @@
     <<480, -2880, 960, -1920>> :> <<5503561, 9084414, 6553600>> @@
     <<480, -2880, 960, -960>> :> <<8617183, 3515148, 1048576>> @@
     <<480, -2880, 960, 0>> :> <<10007557, 3708066, 1572864>> @@
     <<480, -2880, 960, 960>> :> <<8617183, 3515148, 1048576>> @@
     <<480, -2880, 960, 1920>> :> <<5503561, 9084414, 7077888>> @@
     <<480, -2880, 960, 2880>> :> <<3335852, 6828427, 6029312>> @@
     <<480, -2880, 1440, -2880>> :> <<6671704, 13656854, 12320768>> @@
     <<480, -2880, 1440, -1920>> :> <<6671704, 13656854, 12320768>> @@
     <<480, -2880, 1440, -960>> :> <<6671704, 13656854, 12320768>> @@
     <<480, -2880, 1440, 0>> :> <<6671704, 13656854, 12320768>> @@
     <<480, -2880, 1440, 960>> :> <<6671704, 13656854, 12320768>> @@
     <<480, -2880, 1440, 1920>> :> <<6671704, 13656854, 12320768>>) @@
    (<<480, -2880, 1440, 2880>> :> <<6671704, 13656854, 12320768>> @@
     <<480, -2880, 0, 480>> :> <<15410568, 3173498, 15204352>> @@
     <<480, -2880, 160, 800>> :> <<13062840, 15976460, 4194304>> @@
     <<480, -2880, 8, 0>> :> <<16623664, 8303265, 3670016>> @@
     <<480, -2880, 0, 720>> :> <<14206421, 12867767, 13631488>> @@
     <<480, -2880, 168, 804>> :> <<13005457, 14465780, 12058624>> @@
     <<480, -2880, 720, 1440>> :> <<7705284, 1586749, 7602176>> @@
     <<480, -2880, -480, -2400>> :> <<7389122, 10372657, 12058624>> @@
     <<480, -2880, 0, 240>> :> <<16320553, 2229803, 5767168>> @@
     <<480, -2880, 480, 480>> :> <<12625991, 13820690, 7864320>> @@
     <<480, -2880, -960, 2160>> :> <<10817751, 14079447, 11010048>> @@
     <<480, -2880, 160, 960>> :> <<12215127, 2194292, 9961472>> @@
     <<480, -2880, 16, 0>> :> <<16568066, 16018825, 9437184>> @@
     <<480, -2880, 0, 16>> :> <<16677581, 12556269, 8912896>> @@
     <<480, -2880, 0, 32>> :> <<16672545, 16700787, 7340032>> @@
     <<480, -2880, 16, 16>> :> <<16566435, 15980968, 15204352>> @@
     <<480, -2880, 0, 160>> :> <<16515254, 16357057, 6815744>> @@
     <<480, -2880, 160, 0>> :> <<15567311, 3903967, 12058624>> @@
     <<480, -2880, 160, 160>> :> <<15440385, 16054307, 6291456>> @@
     <<480, -2880, 720, 720>> :> <<10514327, 7086756, 11534336>>) @@
    (<<480, -2880, -720, -1440>> :> <<12309830, 5829382, 12058624>> @@
     <<480, -2880, 720, -1440>> :> <<7705284, 1586749, 7077888>> @@
     <<480, -2880, -160, -960>> :> <<13441384, 15701923, 13631488>> @@
     <<480, -2880, 0, 1440>> :> <<10007557, 3708066, 1572864>> @@
     <<480, -2880, 0, -1440>> :> <<10007557, 3708066, 1048576>> @@
     <<480, -2880, 1, 1>> :> <<16672305, 13247581, 1572864>> @@
     <<480, -1920, -1440, -2880>> :> <<13343409, 10536493, 7340032>> @@
     <<480, -1920, -1440, -1920>> :> <<13343409, 10536493, 7340032>> @@
     <<480, -1920, -1440, -960>> :> <<13343409, 10536493, 7340032>> @@
     <<480, -1920, -1440, 0>> :> <<13343409, 10536493, 7340032>> @@
     <<480, -1920, -1440, 960>> :> <<13343409, 10536493, 7340032>> @@
     <<480, -1920, -1440, 1920>> :> <<13343409, 10536493, 7340032>> @@
     <<480, -1920, -1440, 2880>> :> <<13343409, 10536493, 7340032>> @@
     <<480, -1920, -960, -2880>> :> <<11397931, 3900984, 2621440>> @@
     <<480, -1920, -960, -1920>> :> <<10007557, 3708066, 1048576>> @@
     <<480, -1920, -960, -960>> :> <<11397931, 3900984, 1572864>> @@
     <<480, -1920, -960, 0>> :> <<14511552, 15108933, 13107200>> @@
     <<480, -1920, -960, 960>> :> <<16679262, 587704, 13631488>> @@
     <<480, -1920, -960, 1920>> :> <<14511552, 15108933, 13107200>> @@
     <<480, -1920, -960, 2880>> :> <<11397931, 3900984, 2621440>>) @@
    (<<480, -1920, -480, -2880>> :> <<9209092, 8485266, 10485760>> @@
     <<480, -1920, -480, -1920>> :> <<6671704, 13656854, 12058624>> @@
     <<480, -1920, -480, -960>> :> <<9209092, 8485266, 10485760>> @@
     <<480, -1920, -480, 0>> :> <<14308826, 2659478, 9961472>> @@
     <<480, -1920, -480, 960>> :> <<20015114, 7416132, 3145728>> @@
     <<480, -1920, -480, 1920>> :> <<14308826, 2659478, 12058624>> @@
     <<480, -1920, -480, 2880>> :> <<9209092, 8485266, 11010048>> @@
     <<480, -1920, 0, -2880>> :> <<7154413, 1329739, 5505024>> @@
     <<480, -1920, 0, -1920>> :> <<3335852, 6828427, 6029312>> @@
     <<480, -1920, 0, -960>> :> <<7154413, 1329739, 5505024>> @@
     <<480, -1920, 0, 0>> :> <<12860701, 6086392, 14155776>> @@
     <<480, -1920, 0, 960>> :> <<16679262, 587704, 13631488>> @@
     <<480, -1920, 0, 1920>> :> <<12860701, 6086392, 14680064>> @@
     <<480, -1920, 0, 2880>> :> <<7154413, 1329739, 6291456>> @@
     <<480, -1920, 480, -2880>> :> <<5706288, 4756653, 8912896>> @@
     <<480, -1920, 480, -1920>> :> <<0, 0, 0>> @@
     <<480, -1920, 480, -960>> :> <<5706288, 4756653, 8650752>> @@
     <<480, -1920, 480, 0>> :> <<10806021, 15708081, 9437184>> @@
     <<480, -1920, 480, 960>> :> <<13343409, 10536493, 7864320>> @@
     <<480, -1920, 480, 1920>> :> <<10806021, 15708081, 9961472>>) @@
    (<<480, -1920, 480, 2880>> :> <<5706288, 4756653, 9961472>> @@
     <<480, -1920, 960, -2880>> :> <<5503561, 9084414, 6553600>> @@
     <<480, -1920, 960, -1920>> :> <<3335852, 6828427, 6029312>> @@
     <<480, -1920, 960, -960>> :> <<5503561, 9084414, 6553600>> @@
     <<480, -1920, 960, 0>> :> <<8617183, 3515148, 524288>> @@
     <<480, -1920, 960, 960>> :> <<10007557, 3708066, 1572864>> @@
     <<480, -1920, 960, 1920>> :> <<8617183, 3515148, 1048576>> @@
     <<480, -1920, 960, 2880>> :> <<5503561, 9084414, 7077888>> @@
     <<480, -1920, 1440, -2880>> :> <<6671704, 13656854, 12320768>> @@
     <<480, -1920, 1440, -1920>> :> <<6671704, 13656854, 12320768>> @@
     <<480, -1920, 1440, -960>> :> <<6671704, 13656854, 12320768>> @@
     <<480, -1920, 1440, 0>> :> <<6671704, 13656854, 12320768>> @@
     <<480, -1920, 1440, 960>> :> <<6671704, 13656854, 12320768>> @@
     <<480, -1920, 1440, 1920>> :> <<6671704, 13656854, 12320768>> @@
     <<480, -1920, 1440, 2880>> :> <<6671704, 13656854, 12320768>> @@
     <<480, -1920, 0, 480>> :> <<15410568, 3173498, 14155776>> @@
     <<480, -1920, 160, 800>> :> <<15440385, 16054307, 6291456>> @@
     <<480, -1920, 8, 0>> :> <<12829781, 2932113, 12582912>> @@
     <<480, -1920, 0, 720>> :> <<16320553, 2229803, 5767168>> @@
     <<480, -1920, 168, 804>> :> <<15392360, 6590549, 4194304>>) @@
    (<<480, -1920, 720, 1440>> :> <<11139753, 383450, 16252928>> @@
     <<480, -1920, -480, -2400>> :> <<7389122, 10372657, 12058624>> @@
     <<480, -1920, 0, 240>> :> <<14206421, 12867767, 13631488>> @@
     <<480, -1920, 480, 480>> :> <<12625991, 13820690, 7864320>> @@
     <<480, -1920, -960, 2160>> :> <<13680380, 8148882, 8912896>> @@
     <<480, -1920, 160, 960>> :> <<15567311, 3903967, 12058624>> @@
     <<480, -1920, 16, 0>> :> <<12798702, 6120802, 8388608>> @@
     <<480, -1920, 0, 16>> :> <<12953075, 6057529, 524288>> @@
     <<480, -1920, 0, 32>> :> <<13045147, 7751359, 4718592>> @@
     <<480, -1920, 16, 16>> :> <<12890627, 5859848, 11010048>> @@
     <<480, -1920, 0, 160>> :> <<13768824, 12859526, 6815744>> @@
     <<480, -1920, 160, 0>> :> <<12215127, 2194292, 8388608>> @@
     <<480, -1920, 160, 160>> :> <<13062840, 15976460, 2621440>> @@
     <<480, -1920, 720, 720>> :> <<11538241, 5466261, 12582912>> @@
     <<480, -1920, -720, -1440>> :> <<8875361, 7032681, 3670016>> @@
     <<480, -1920, 720, -1440>> :> <<3100737, 14121332, 1835008>> @@
     <<480, -1920, -160, -960>> :> <<7799987, 5221839, 9961472>> @@
     <<480, -1920, 0, 1440>> :> <<15410568, 3173498, 15204352>> @@
     <<480, -1920, 0, -1440>> :> <<4604546, 4242633, 4980736>> @@
     <<480, -1920, 1, 1>> :> <<12862625, 5950541, 2621440>>) @@
    (<<480, -960, -1440, -2880>> :> <<13343409, 10536493, 7340032>> @@
     <<480, -960, -1440, -1920>> :> <<13343409, 10536493, 7340032>> @@
     <<480, -960, -1440, -960>> :> <<13343409, 10536493, 7340032>> @@
     <<480, -960, -1440, 0>> :> <<13343409, 10536493, 7340032>> @@
     <<480, -960, -1440, 960>> :> <<13343409, 10536493, 7340032>> @@
     <<480, -960, -1440, 1920>> :> <<13343409, 10536493, 7340032>> @@
     <<480, -960, -1440, 2880>> :> <<13343409, 10536493, 7340032>> @@
     <<480, -960, -960, -2880>> :> <<14511552, 15108933, 13107200>> @@
     <<480, -960, -960, -1920>> :> <<11397931, 3900984, 1572864>> @@
     <<480, -960, -960, -960>> :> <<10007557, 3708066, 1048576>> @@
     <<480, -960, -960, 0>> :> <<11397931, 3900984, 1572864>> @@
     <<480, -960, -960, 960>> :> <<14511552, 15108933, 13107200>> @@
     <<480, -960, -960, 1920>> :> <<16679262, 587704, 13631488>> @@
     <<480, -960, -960, 2880>> :> <<14511552, 15108933, 13107200>> @@
     <<480, -960, -480, -2880>> :> <<14308826, 2659478, 12058624>> @@
     <<480, -960, -480, -1920>> :> <<9209092, 8485266, 10485760>> @@
     <<480, -960, -480, -960>> :> <<6671704, 13656854, 12058624>> @@
     <<480, -960, -480, 0>> :> <<9209092, 8485266, 10485760>> @@
     <<480, -960, -480, 960>> :> <<14308826, 2659478, 9961472>> @@
     <<480, -960, -480, 1920>> :> <<20015114, 7416132, 3145728>>) @@
    (<<480, -960, -480, 2880>> :> <<14308826, 2659478, 12058624>> @@
     <<480, -960, 0, -2880>> :> <<12860701, 6086392, 14680064>> @@
     <<480, -960, 0, -1920>> :> <<7154413, 1329739, 5505024>> @@
     <<480, -960, 0, -960>> :> <<3335852, 6828427, 6029312>> @@
     <<480, -960, 0, 0>> :> <<7154413, 1329739, 5505024>> @@
     <<480, -960, 0, 960>> :> <<12860701, 6086392, 14155776>> @@
     <<480, -960, 0, 1920>> :> <<16679262, 587704, 13631488>> @@
     <<480, -960, 0, 2880>> :> <<12860701, 6086392, 14680064>> @@
     <<480, -960, 480, -2880>> :> <<10806021, 15708081, 9961472>> @@
     <<480, -960, 480, -1920>> :> <<5706288, 4756653, 8650752>> @@
     <<480, -960, 480, -960>> :> <<0, 0, 0>> @@
     <<480, -960, 480, 0>> :> <<5706288, 4756653, 8650752>> @@
     <<480, -960, 480, 960>> :> <<10806021, 15708081, 9437184>> @@
     <<480, -960, 480, 1920>> :> <<13343409, 10536493, 7864320>> @@
     <<480, -960, 480, 2880>> :> <<10806021, 15708081, 9961472>> @@
     <<480, -960, 960, -2880>> :> <<8617183, 3515148, 1048576>> @@
     <<480, -960, 960, -1920>> :> <<5503561, 9084414, 6553600>> @@
     <<480, -960, 960, -960>> :> <<3335852, 6828427, 6029312>> @@
     <<480, -960, 960, 0>> :> <<5503561, 9084414, 6553600>> @@
     <<480, -960, 960, 960>> :> <<8617183, 3515148, 524288>>) @@
    (<<480, -960, 960, 1920>> :> <<10007557, 3708066, 1572864>> @@
     <<480, -960, 960, 2880>> :> <<8617183, 3515148, 1048576>> @@
     <<480, -960, 1440, -2880>> :> <<6671704, 13656854, 12320768>> @@
     <<480, -960, 1440, -1920>> :> <<6671704, 13656854, 12320768>> @@
     <<480, -960, 1440, -960>> :> <<6671704, 13656854, 12320768>> @@
     <<480, -960, 1440, 0>> :> <<6671704, 13656854, 12320768>> @@
     <<480, -960, 1440, 960>> :> <<6671704, 13656854, 12320768>> @@
     <<480, -960, 1440, 1920>> :> <<6671704, 13656854, 12320768>> @@
     <<480, -960, 1440, 2880>> :> <<6671704, 13656854, 12320768>> @@
     <<480, -960, 0, 480>> :> <<10007557, 3708066, 1048576>> @@
     <<480, -960, 160, 800>> :> <<11322119, 16774488, 0>> @@
     <<480, -960, 8, 0>> :> <<7123654, 4221961, 7864320>> @@
     <<480, -960, 0, 720>> :> <<11447815, 15196179, 12058624>> @@
     <<480, -960, 168, 804>> :> <<11313887, 1654540, 1572864>> @@
     <<480, -960, 720, 1440>> :> <<11139753, 383450, 16252928>> @@
     <<480, -960, -480, -2400>> :> <<11617385, 5873944, 12582912>> @@
     <<480, -960, 0, 240>> :> <<8567298, 8997168, 7340032>> @@
     <<480, -960, 480, 480>> :> <<8397729, 1542187, 6815744>> @@
     <<480, -960, -960, 2160>> :> <<16495808, 7719862, 13631488>> @@
     <<480, -960, 160, 960>> :> <<12215127, 2194292, 8388608>>) @@
    (<<480, -960, 16, 0>> :> <<7093059, 9214480, 9699328>> @@
     <<480, -960, 0, 16>> :> <<7247073, 16560389, 5242880>> @@
     <<480, -960, 0, 32>> :> <<7340007, 7096425, 11272192>> @@
     <<480, -960, 16, 16>> :> <<7186131, 13217993, 5505024>> @@
     <<480, -960, 0, 160>> :> <<8091733, 1473448, 12845056>> @@
     <<480, -960, 160, 0>> :> <<6573729, 8491424, 6553600>> @@
     <<480, -960, 160, 160>> :> <<7534336, 2183174, 8388608>> @@
     <<480, -960, 720, 720>> :> <<8756811, 3576514, 16252928>> @@
     <<480, -960, -720, -1440>> :> <<8875361, 7032681, 3670016>> @@
     <<480, -960, 720, -1440>> :> <<3100737, 14121332, 1966080>> @@
     <<480, -960, -160, -960>> :> <<4447803, 3512164, 8126464>> @@
     <<480, -960, 0, 1440>> :> <<15410568, 3173498, 14155776>> @@
     <<480, -960, 0, -1440>> :> <<4604546, 4242633, 5242880>> @@
     <<480, -960, 1, 1>> :> <<7156344, 1250798, 262144>> @@
     <<480, 0, -1440, -2880>> :> <<13343409, 10536493, 7340032>> @@
     <<480, 0, -1440, -1920>> :> <<13343409, 10536493, 7340032>> @@
     <<480, 0, -1440, -960>> :> <<13343409, 10536493, 7340032>> @@
     <<480, 0, -1440, 0>> :> <<13343409, 10536493, 7340032>> @@
     <<480, 0, -1440, 960>> :> <<13343409, 10536493, 7340032>> @@
     <<480, 0, -1440, 1920>> :> <<13343409, 10536493, 7340032>>) @@
    (<<480, 0, -1440, 2880>> :> <<13343409, 10536493, 7340032>> @@
     <<480, 0, -960, -2880>> :> <<16679262, 587704, 13631488>> @@
     <<480, 0, -960, -1920>> :> <<14511552, 15108933, 13107200>> @@
     <<480, 0, -960, -960>> :> <<11397931, 3900984, 1572864>> @@
     <<480, 0, -960, 0>> :> <<10007557, 3708066, 1048576>> @@
     <<480, 0, -960, 960>> :> <<11397931, 3900984, 1572864>> @@
     <<480, 0, -960, 1920>> :> <<14511552, 15108933, 13107200>> @@
     <<480, 0, -960, 2880>> :> <<16679262, 587704, 13631488>> @@
     <<480, 0, -480, -2880>> :> <<20015114, 7416132, 3145728>> @@
     <<480, 0, -480, -1920>> :> <<14308826, 2659478, 9961472>> @@
     <<480, 0, -480, -960>> :> <<9209092, 8485266, 10485760>> @@
     <<480, 0, -480, 0>> :> <<6671704, 13656854, 12058624>> @@
     <<480, 0, -480, 960>> :> <<9209092, 8485266, 10485760>> @@
     <<480, 0, -480, 1920>> :> <<14308826, 2659478, 9961472>> @@
     <<480, 0, -480, 2880>> :> <<20015114, 7416132, 3145728>> @@
     <<480, 0, 0, -2880>> :> <<16679262, 587704, 13631488>> @@
     <<480, 0, 0, -1920>> :> <<12860701, 6086392, 14155776>> @@
     <<480, 0, 0, -960>> :> <<7154413, 1329739, 5505024>> @@
     <<480, 0, 0, 0>> :> <<3335852, 6828427, 6029312>> @@
     <<480, 0, 0, 960>> :> <<7154413, 1329739, 5505024>>) @@
    (<<480, 0, 0, 1920>> :> <<12860701, 6086392, 14155776>> @@
     <<480, 0, 0, 2880>> :> <<16679262, 587704, 13631488>> @@
     <<480, 0, 480, -2880>> :> <<13343409, 10536493, 7864320>> @@
     <<480, 0, 480, -1920>> :> <<10806021, 15708081, 9437184>> @@
     <<480, 0, 480, -960>> :> <<5706288, 4756653, 8650752>> @@
     <<480, 0, 480, 0>> :> <<0, 0, 0>> @@
     <<480, 0, 480, 960>> :> <<5706288, 4756653, 8650752>> @@
     <<480, 0, 480, 1920>> :> <<10806021, 15708081, 9437184>> @@
     <<480, 0, 480, 2880>> :> <<13343409, 10536493, 7864320>> @@
     <<480, 0, 960, -2880>> :> <<10007557, 3708066, 1572864>> @@
     <<480, 0, 960, -1920>> :> <<8617183, 3515148, 524288>> @@
     <<480, 0, 960, -960>> :> <<5503561, 9084414, 6553600>> @@
     <<480, 0, 960, 0>> :> <<3335852, 6828427, 6029312>> @@
     <<480, 0, 960, 960>> :> <<5503561, 9084414, 6553600>> @@
     <<480, 0, 960, 1920>> :> <<8617183, 3515148, 524288>> @@
     <<480, 0, 960, 2880>> :> <<10007557, 3708066, 1572864>> @@
     <<480, 0, 1440, -2880>> :> <<6671704, 13656854, 12320768>> @@
     <<480, 0, 1440, -1920>> :> <<6671704, 13656854, 12320768>> @@
     <<480, 0, 1440, -960>> :> <<6671704, 13656854, 12320768>> @@
     <<480, 0, 1440, 0>> :> <<6671704, 13656854, 12320768>>) @@
    (<<480, 0, 1440, 960>> :> <<6671704, 13656854, 12320768>> @@
     <<480, 0, 1440, 1920>> :> <<6671704, 13656854, 12320768>> @@
     <<480, 0, 1440, 2880>> :> <<6671704, 13656854, 12320768>> @@
     <<480, 0, 0, 480>> :> <<4604546, 4242633, 5242880>> @@
     <<480, 0, 160, 800>> :> <<5623940, 5405915, 8912896>> @@
     <<480, 0, 8, 0>> :> <<3280254, 14543987, 11665408>> @@
     <<480, 0, 0, 720>> :> <<5808692, 11325580, 6291456>> @@
     <<480, 0, 168, 804>> :> <<5619173, 3531580, 13107200>> @@
     <<480, 0, 720, 1440>> :> <<7705284, 1586749, 7077888>> @@
     <<480, 0, -480, -2400>> :> <<17134597, 1217121, 0>> @@
     <<480, 0, 0, 240>> :> <<3694561, 5186328, 14286848>> @@
     <<480, 0, 480, 480>> :> <<2880517, 6199011, 3932160>> @@
     <<480, 0, -960, 2160>> :> <<15307472, 14172603, 12582912>> @@
     <<480, 0, 160, 960>> :> <<6573729, 8491424, 6553600>> @@
     <<480, 0, 16, 0>> :> <<3224657, 5482332, 655360>> @@
     <<480, 0, 0, 16>> :> <<3337532, 11637078, 12320768>> @@
     <<480, 0, 0, 32>> :> <<3342568, 7492560, 12845056>> @@
     <<480, 0, 16, 16>> :> <<3226389, 16240958, 7471104>> @@
     <<480, 0, 0, 160>> :> <<3499859, 7836290, 13238272>> @@
     <<480, 0, 160, 0>> :> <<2223901, 10144690, 3932160>>) @@
    (<<480, 0, 160, 160>> :> <<2453903, 8942518, 14417920>> @@
     <<480, 0, 720, 720>> :> <<4240340, 6216135, 9961472>> @@
     <<480, 0, -720, -1440>> :> <<12309830, 5829382, 12058624>> @@
     <<480, 0, 720, -1440>> :> <<7705284, 1586749, 7077888>> @@
     <<480, 0, -160, -960>> :> <<7799987, 5221839, 9961472>> @@
     <<480, 0, 0, 1440>> :> <<10007557, 3708066, 1048576>> @@
     <<480, 0, 0, -1440>> :> <<10007557, 3708066, 1048576>> @@
     <<480, 0, 1, 1>> :> <<3328909, 4902268, 3801088>> @@
     <<480, 960, -1440, -2880>> :> <<13343409, 10536493, 7340032>> @@
     <<480, 960, -1440, -1920>> :> <<13343409, 10536493, 7340032>> @@
     <<480, 960, -1440, -960>> :> <<13343409, 10536493, 7340032>> @@
     <<480, 960, -1440, 0>> :> <<13343409, 10536493, 7340032>> @@
     <<480, 960, -1440, 960>> :> <<13343409, 10536493, 7340032>> @@
     <<480, 960, -1440, 1920>> :> <<13343409, 10536493, 7340032>> @@
     <<480, 960, -1440, 2880>> :> <<13343409, 10536493, 7340032>> @@
     <<480, 960, -960, -2880>> :> <<14511552, 15108933, 13107200>> @@
     <<480, 960, -960, -1920>> :> <<16679262, 587704, 13631488>> @@
     <<480, 960, -960, -960>> :> <<14511552, 15108933, 13107200>> @@
     <<480, 960, -960, 0>> :> <<11397931, 3900984, 1572864>> @@
     <<480, 960, -960, 960>> :> <<10007557, 3708066, 1048576>>) @@
    (<<480, 960, -960, 1920>> :> <<11397931, 3900984, 1572864>> @@
     <<480, 960, -960, 2880>> :> <<14511552, 15108933, 13107200>> @@
     <<480, 960, -480, -2880>> :> <<14308826, 2659478, 12058624>> @@
     <<480, 960, -480, -1920>> :> <<20015114, 7416132, 3145728>> @@
     <<480, 960, -480, -960>> :> <<14308826, 2659478, 9961472>> @@
     <<480, 960, -480, 0>> :> <<9209092, 8485266, 10485760>> @@
     <<480, 960, -480, 960>> :> <<6671704, 13656854, 12058624>> @@
     <<480, 960, -480, 1920>> :> <<9209092, 8485266, 10485760>> @@
     <<480, 960, -480, 2880>> :> <<14308826, 2659478, 12058624>> @@
     <<480, 960, 0, -2880>> :> <<12860701, 6086392, 14680064>> @@
     <<480, 960, 0, -1920>> :> <<16679262, 587704, 13631488>> @@
     <<480, 960, 0, -960>> :> <<12860701, 6086392, 14155776>> @@
     <<480, 960, 0, 0>> :> <<7154413, 1329739, 5505024>> @@
     <<480, 960, 0, 960>> :> <<3335852, 6828427, 6029312>> @@
     <<480, 960, 0, 1920>> :> <<7154413, 1329739, 5505024>> @@
     <<480, 960, 0, 2880>> :> <<12860701, 6086392, 14680064>> @@
     <<480, 960, 480, -2880>> :> <<10806021, 15708081, 9961472>> @@
     <<480, 960, 480, -1920>> :> <<13343409, 10536493, 7864320>> @@
     <<480, 960, 480, -960>> :> <<10806021, 15708081, 9437184>> @@
     <<480, 960, 480, 0>> :> <<5706288, 4756653, 8650752>>) @@
    (<<480, 960, 480, 960>> :> <<0, 0, 0>> @@
     <<480, 960, 480, 1920>> :> <<5706288, 4756653, 8650752>> @@
     <<480, 960, 480, 2880>> :> <<10806021, 15708081, 9961472>> @@
     <<480, 960, 960, -2880>> :> <<8617183, 3515148, 1048576>> @@
     <<480, 960, 960, -1920>> :> <<10007557, 3708066, 1572864>> @@
     <<480, 960, 960, -960>> :> <<8617183, 3515148, 524288>> @@
     <<480, 960, 960, 0>> :> <<5503561, 9084414, 6553600>> @@
     <<480, 960, 960, 960>> :> <<3335852, 6828427, 6029312>> @@
     <<480, 960, 960, 1920>> :> <<5503561, 9084414, 6553600>> @@
     <<480, 960, 960, 2880>> :> <<8617183, 3515148, 1048576>> @@
     <<480, 960, 1440, -2880>> :> <<6671704, 13656854, 12320768>> @@
     <<480, 960, 1440, -1920>> :> <<6671704, 13656854, 12320768>> @@
     <<480, 960, 1440, -960>> :> <<6671704, 13656854, 12320768>> @@
     <<480, 960, 1440, 0>> :> <<6671704, 13656854, 12320768>> @@
     <<480, 960, 1440, 960>> :> <<6671704, 13656854, 12320768>> @@
     <<480, 960, 1440, 1920>> :> <<6671704, 13656854, 12320768>> @@
     <<480, 960, 1440, 2880>> :> <<6671704, 13656854, 12320768>> @@
     <<480, 960, 0, 480>> :> <<4604546, 4242633, 5242880>> @@
     <<480, 960, 160, 800>> :> <<2453903, 8942518, 14286848>> @@
     <<480, 960, 8, 0>> :> <<7123654, 4221961, 7864320>>) @@
    (<<480, 960, 0, 720>> :> <<3694561, 5186328, 14286848>> @@
     <<480, 960, 168, 804>> :> <<2392005, 3343472, 16515072>> @@
     <<480, 960, 720, 1440>> :> <<3100737, 14121332, 1966080>> @@
     <<480, 960, -480, -2400>> :> <<17134597, 1217121, 0>> @@
     <<480, 960, 0, 240>> :> <<5808692, 11325580, 6291456>> @@
     <<480, 960, 480, 480>> :> <<2880517, 6199011, 3932160>> @@
     <<480, 960, -960, 2160>> :> <<12089110, 94968, 2097152>> @@
     <<480, 960, 160, 960>> :> <<2223901, 10144690, 3932160>> @@
     <<480, 960, 16, 0>> :> <<7093059, 9214480, 9699328>> @@
     <<480, 960, 0, 16>> :> <<7062039, 1358603, 2621440>> @@
     <<480, 960, 0, 32>> :> <<6969966, 16441988, 14417920>> @@
     <<480, 960, 16, 16>> :> <<7000256, 7259437, 6553600>> @@
     <<480, 960, 0, 160>> :> <<6246289, 11333821, 11534336>> @@
     <<480, 960, 160, 0>> :> <<6573729, 8491424, 6553600>> @@
     <<480, 960, 160, 160>> :> <<5623940, 5405915, 8650752>> @@
     <<480, 960, 720, 720>> :> <<2121667, 1713845, 9043968>> @@
     <<480, 960, -720, -1440>> :> <<16914376, 10072015, 15728640>> @@
     <<480, 960, 720, -1440>> :> <<11139753, 383450, 16252928>> @@
     <<480, 960, -160, -960>> :> <<13441384, 15701923, 12058624>> @@
     <<480, 960, 0, 1440>> :> <<4604546, 4242633, 5242880>>) @@
    (<<480, 960, 0, -1440>> :> <<15410568, 3173498, 14155776>> @@
     <<480, 960, 1, 1>> :> <<7144775, 12274230, 13631488>> @@
     <<480, 1920, -1440, -2880>> :> <<13343409, 10536493, 7340032>> @@
     <<480, 1920, -1440, -1920>> :> <<13343409, 10536493, 7340032>> @@
     <<480, 1920, -1440, -960>> :> <<13343409, 10536493, 7340032>> @@
     <<480, 1920, -1440, 0>> :> <<13343409, 10536493, 7340032>> @@
     <<480, 1920, -1440, 960>> :> <<13343409, 10536493, 7340032>> @@
     <<480, 1920, -1440, 1920>> :> <<13343409, 10536493, 7340032>> @@
     <<480, 1920, -1440, 2880>> :> <<13343409, 10536493, 7340032>> @@
     <<480, 1920, -960, -2880>> :> <<11397931, 3900984, 2621440>> @@
     <<480, 1920, -960, -1920>> :> <<14511552, 15108933, 13107200>> @@
     <<480, 1920, -960, -960>> :> <<16679262, 587704, 13631488>> @@
     <<480, 1920, -960, 0>> :> <<14511552, 15108933, 13107200>> @@
     <<480, 1920, -960, 960>> :> <<11397931, 3900984, 1572864>> @@
     <<480, 1920, -960, 1920>> :> <<10007557, 3708066, 1048576>> @@
     <<480, 1920, -960, 2880>> :> <<11397931, 3900984, 2621440>> @@
     <<480, 1920, -480, -2880>> :> <<9209092, 8485266, 11010048>> @@
     <<480, 1920, -480, -1920>> :> <<14308826, 2659478, 12058624>> @@
     <<480, 1920, -480, -960>> :> <<20015114, 7416132, 3145728>> @@
     <<480, 1920, -480, 0>> :> <<14308826, 2659478, 9961472>>) @@
    (<<480, 1920, -480, 960>> :> <<9209092, 8485266, 10485760>> @@
     <<480, 1920, -480, 1920>> :> <<6671704, 13656854, 12058624>> @@
     <<480, 1920, -480, 2880>> :> <<9209092, 8485266, 10485760>> @@
     <<480, 1920, 0, -2880>> :> <<7154413, 1329739, 6291456>> @@
     <<480, 1920, 0, -1920>> :> <<12860701, 6086392, 14680064>> @@
     <<480, 1920, 0, -960>> :> <<16679262, 587704, 13631488>> @@
     <<480, 1920, 0, 0>> :> <<12860701, 6086392, 14155776>> @@
     <<480, 1920, 0, 960>> :> <<7154413, 1329739, 5505024>> @@
     <<480, 1920, 0, 1920>> :> <<3335852, 6828427, 6029312>> @@
     <<480, 1920, 0, 2880>> :> <<7154413, 1329739, 5505024>> @@
     <<480, 1920, 480, -2880>> :> <<5706288, 4756653, 9961472>> @@
     <<480, 1920, 480, -1920>> :> <<10806021, 15708081, 9961472>> @@
     <<480, 1920, 480, -960>> :> <<13343409, 10536493, 7864320>> @@
     <<480, 1920, 480, 0>> :> <<10806021, 15708081, 9437184>> @@
     <<480, 1920, 480, 960>> :> <<5706288, 4756653, 8650752>> @@
     <<480, 1920, 480, 1920>> :> <<0, 0, 0>> @@
     <<480, 1920, 480, 2880>> :> <<5706288, 4756653, 8912896>> @@
     <<480, 1920, 960, -2880>> :> <<5503561, 9084414, 7077888>> @@
     <<480, 1920, 960, -1920>> :> <<8617183, 3515148, 1048576>> @@
     <<480, 1920, 960, -960>> :> <<10007557, 3708066, 1572864>>) @@
    (<<480, 1920, 960, 0>> :> <<8617183, 3515148, 524288>> @@
     <<480, 1920, 960, 960>> :> <<5503561, 9084414, 6553600>> @@
     <<480, 1920, 960, 1920>> :> <<3335852, 6828427, 6029312>> @@
     <<480, 1920, 960, 2880>> :> <<5503561, 9084414, 6553600>> @@
     <<480, 1920, 1440, -2880>> :> <<6671704, 13656854, 12320768>> @@
     <<480, 1920, 1440, -1920>> :> <<6671704, 13656854, 12320768>> @@
     <<480, 1920, 1440, -960>> :> <<6671704, 13656854, 12320768>> @@
     <<480, 1920, 1440, 0>> :> <<6671704, 13656854, 12320768>> @@
     <<480, 1920, 1440, 960>> :> <<6671704, 13656854, 12320768>> @@
     <<480, 1920, 1440, 1920>> :> <<6671704, 13656854, 12320768>> @@
     <<480, 1920, 1440, 2880>> :> <<6671704, 13656854, 12320768>> @@
     <<480, 1920, 0, 480>> :> <<10007557, 3708066, 1048576>> @@
     <<480, 1920, 160, 800>> :> <<7534336, 2183174, 8388608>> @@
     <<480, 1920, 8, 0>> :> <<12829781, 2932113, 12582912>> @@
     <<480, 1920, 0, 720>> :> <<8567298, 8997168, 7340032>> @@
     <<480, 1920, 168, 804>> :> <<7483852, 14581605, 1048576>> @@
     <<480, 1920, 720, 1440>> :> <<3100737, 14121332, 1835008>> @@
     <<480, 1920, -480, -2400>> :> <<11617385, 5873944, 12582912>> @@
     <<480, 1920, 0, 240>> :> <<11447815, 15196179, 12058624>> @@
     <<480, 1920, 480, 480>> :> <<8397729, 1542187, 6815744>>) @@
    (<<480, 1920, -960, 2160>> :> <<10101562, 380, 14155776>> @@
     <<480, 1920, 160, 960>> :> <<6573729, 8491424, 6553600>> @@
     <<480, 1920, 16, 0>> :> <<12798702, 6120802, 8388608>> @@
     <<480, 1920, 0, 16>> :> <<12768040, 7632958, 14680064>> @@
     <<480, 1920, 0, 32>> :> <<12675107, 319706, 7864320>> @@
     <<480, 1920, 16, 16>> :> <<12706472, 15317058, 13631488>> @@
     <<480, 1920, 0, 160>> :> <<11923381, 5942683, 6291456>> @@
     <<480, 1920, 160, 0>> :> <<12215127, 2194292, 8388608>> @@
     <<480, 1920, 160, 160>> :> <<11322119, 16774487, 15728640>> @@
     <<480, 1920, 720, 720>> :> <<6582717, 13169451, 16515072>> @@
     <<480, 1920, -720, -1440>> :> <<16914376, 10072016, 1048576>> @@
     <<480, 1920, 720, -1440>> :> <<11139753, 383450, 16252928>> @@
     <<480, 1920, -160, -960>> :> <<17791212, 14048657, 14680064>> @@
     <<480, 1920, 0, 1440>> :> <<4604546, 4242633, 4980736>> @@
     <<480, 1920, 0, -1440>> :> <<15410568, 3173498, 15204352>> @@
     <<480, 1920, 1, 1>> :> <<12851063, 12330963, 4718592>> @@
     <<480, 2880, -1440, -2880>> :> <<13343409, 10536493, 7340032>> @@
     <<480, 2880, -1440, -1920>> :> <<13343409, 10536493, 7340032>> @@
     <<480, 2880, -1440, -960>> :> <<13343409, 10536493, 7340032>> @@
     <<480, 2880, -1440, 0>> :> <<13343409, 10536493, 7340032>>) @@
    (<<480, 2880, -1440, 960>> :> <<13343409, 10536493, 7340032>> @@
     <<480, 2880, -1440, 1920>> :> <<13343409, 10536493, 7340032>> @@
     <<480, 2880, -1440, 2880>> :> <<13343409, 10536493, 7340032>> @@
     <<480, 2880, -960, -2880>> :> <<10007557, 3708066, 1048576>> @@
     <<480, 2880, -960, -1920>> :> <<11397931, 3900984, 2621440>> @@
     <<480, 2880, -960, -960>> :> <<14511552, 15108933, 13107200>> @@
     <<480, 2880, -960, 0>> :> <<16679262, 587704, 13631488>> @@
     <<480, 2880, -960, 960>> :> <<14511552, 15108933, 13107200>> @@
     <<480, 2880, -960, 1920>> :> <<11397931, 3900984, 2621440>> @@
     <<480, 2880, -960, 2880>> :> <<10007557, 3708066, 1048576>> @@
     <<480, 2880, -480, -2880>> :> <<6671704, 13656854, 12058624>> @@
     <<480, 2880, -480, -1920>> :> <<9209092, 8485266, 11010048>> @@
     <<480, 2880, -480, -960>> :> <<14308826, 2659478, 12058624>> @@
     <<480, 2880, -480, 0>> :> <<20015114, 7416132, 3145728>> @@
     <<480, 2880, -480, 960>> :> <<14308826, 2659478, 12058624>> @@
     <<480, 2880, -480, 1920>> :> <<9209092, 8485266, 10485760>> @@
     <<480, 2880, -480, 2880>> :> <<6671704, 13656854, 12058624>> @@
     <<480, 2880, 0, -2880>> :> <<3335852, 6828427, 6029312>> @@
     <<480, 2880, 0, -1920>> :> <<7154413, 1329739, 6291456>> @@
     <<480, 2880, 0, -960>> :> <<12860701, 6086392, 14680064>>) @@
    (<<480, 2880, 0, 0>> :> <<16679262, 587704, 13631488>> @@
     <<480, 2880, 0, 960>> :> <<12860701, 6086392, 14680064>> @@
     <<480, 2880, 0, 1920>> :> <<7154413, 1329739, 5505024>> @@
     <<480, 2880, 0, 2880>> :> <<3335852, 6828427, 6029312>> @@
     <<480, 2880, 480, -2880>> :> <<0, 0, 380381, 9699456, 14467072>> @@
     <<480, 2880, 480, -1920>> :> <<5706288, 4756653, 9961472>> @@
     <<480, 2880, 480, -960>> :> <<10806021, 15708081, 9961472>> @@
     <<480, 2880, 480, 0>> :> <<13343409, 10536493, 7864320>> @@
     <<480, 2880, 480, 960>> :> <<10806021, 15708081, 9961472>> @@
     <<480, 2880, 480, 1920>> :> <<5706288, 4756653, 8912896>> @@
     <<480, 2880, 480, 2880>> :> <<0, 0, 0>> @@
     <<480, 2880, 960, -2880>> :> <<3335852, 6828427, 6029312>> @@
     <<480, 2880, 960, -1920>> :> <<5503561, 9084414, 7077888>> @@
     <<480, 2880, 960, -960>> :> <<8617183, 3515148, 1048576>> @@
     <<480, 2880, 960, 0>> :> <<10007557, 3708066, 1572864>> @@
     <<480, 2880, 960, 960>> :> <<8617183, 3515148, 1048576>> @@
     <<480, 2880, 960, 1920>> :> <<5503561, 9084414, 6553600>> @@
     <<480, 2880, 960, 2880>> :> <<3335852, 6828427, 6029312>> @@
     <<480, 2880, 1440, -2880>> :> <<6671704, 13656854, 12320768>> @@
     <<480, 2880, 1440, -1920>> :> <<6671704, 13656854, 12320768>>) @@
    (<<480, 2880, 1440, -960>> :> <<6671704, 13656854, 12320768>> @@
     <<480, 2880, 1440, 0>> :> <<6671704, 13656854, 12320768>> @@
     <<480, 2880, 1440, 960>> :> <<6671704, 13656854, 12320768>> @@
     <<480, 2880, 1440, 1920>> :> <<6671704, 13656854, 12320768>> @@
     <<480, 2880, 1440, 2880>> :> <<6671704, 13656854, 12320768>> @@
     <<480, 2880, 0, 480>> :> <<15410568, 3173498, 15204352>> @@
     <<480, 2880, 160, 800>> :> <<13062840, 15976460, 3670016>> @@
     <<480, 2880, 8, 0>> :> <<16623664, 8303265, 3670016>> @@
     <<480, 2880, 0, 720>> :> <<14206421, 12867767, 13631488>> @@
     <<480, 2880, 168, 804>> :> <<13005457, 14465780, 11010048>> @@
     <<480, 2880, 720, 1440>> :> <<7705284, 1586749, 7077888>> @@
     <<480, 2880, -480, -2400>> :> <<7389122, 10372657, 11272192>> @@
     <<480, 2880, 0, 240>> :> <<16320553, 2229803, 5767168>> @@
     <<480, 2880, 480, 480>> :> <<12625991, 13820690, 7864320>> @@
     <<480, 2880, -960, 2160>> :> <<10817751, 14079447, 11010048>> @@
     <<480, 2880, 160, 960>> :> <<12215127, 2194292, 9961472>> @@
     <<480, 2880, 16, 0>> :> <<16568066, 16018825, 9437184>> @@
     <<480, 2880, 0, 16>> :> <<16677581, 12556269, 8912896>> @@
     <<480, 2880, 0, 32>> :> <<16672545, 16700787, 7340032>> @@
     <<480, 2880, 16, 16>> :> <<16566435, 15980968, 15204352>>) @@
    (<<480, 2880, 0, 160>> :> <<16515254, 16357057, 6815744>> @@
     <<480, 2880, 160, 0>> :> <<15567311, 3903967, 12058624>> @@
     <<480, 2880, 160, 160>> :> <<15440385, 16054307, 6291456>> @@
     <<480, 2880, 720, 720>> :> <<10514327, 7086756, 11534336>> @@
     <<480, 2880, -720, -1440>> :> <<12309830, 5829382, 12582912>> @@
     <<480, 2880, 720, -1440>> :> <<7705284, 1586749, 7602176>> @@
     <<480, 2880, -160, -960>> :> <<13441384, 15701923, 13631488>> @@
     <<480, 2880, 0, 1440>> :> <<10007557, 3708066, 1048576>> @@
     <<480, 2880, 0, -1440>> :> <<10007557, 3708066, 1572864>> @@
     <<480, 2880, 1, 1>> :> <<16672305, 13247581, 1572864>> @@
     <<960, -2880, -1440, -2880>> :> <<16679262, 587704, 12058624>> @@
     <<960, -2880, -1440, -1920>> :> <<16679262, 587704, 12058624>> @@
     <<960, -2880, -1440, -960>> :> <<16679262, 587704, 12058624>> @@
     <<960, -2880, -1440, 0>> :> <<16679262, 587704, 12058624>> @@
     <<960, -2880, -1440, 960>> :> <<16679262, 587704, 12058624>> @@
     <<960, -2880, -1440, 1920>> :> <<16679262, 587704, 12058624>> @@
     <<960, -2880, -1440, 2880>> :> <<16679262, 587704, 12058624>> @@
     <<960, -2880, -960, -2880>> :> <<13343409, 10536493, 7340032>> @@
     <<960, -2880, -960, -1920>> :> <<14308826, 2659478, 9961472>> @@
     <<960, -2880, -960, -960>> :> <<16795458, 3084374, 14680064>>) @@
    (<<960, -2880, -960, 0>> :> <<20015114, 7416132, 3145728>> @@
     <<960, -2880, -960, 960>> :> <<16795458, 3084374, 14680064>> @@
     <<960, -2880, -960, 1920>> :> <<14308826, 2659478, 9961472>> @@
     <<960, -2880, -960, 2880>> :> <<13343409, 10536493, 7340032>> @@
     <<960, -2880, -480, -2880>> :> <<10007557, 3708066, 1048576>> @@
     <<960, -2880, -480, -1920>> :> <<11397931, 3900984, 2621440>> @@
     <<960, -2880, -480, -960>> :> <<14511552, 15108933, 13107200>> @@
     <<960, -2880, -480, 0>> :> <<16679262, 587704, 13631488>> @@
     <<960, -2880, -480, 960>> :> <<14511552, 15108933, 13107200>> @@
     <<960, -2880, -480, 1920>> :> <<11397931, 3900984, 2621440>> @@
     <<960, -2880, -480, 2880>> :> <<10007557, 3708066, 1048576>> @@
     <<960, -2880, 0, -2880>> :> <<6671704, 13656854, 12058624>> @@
     <<960, -2880, 0, -1920>> :> <<8397729, 1542187, 6815744>> @@
     <<960, -2880, 0, -960>> :> <<11617385, 5873944, 12582912>> @@
     <<960, -2880, 0, 0>> :> <<13343409, 10536493, 7340032>> @@
     <<960, -2880, 0, 960>> :> <<11617385, 5873944, 12582912>> @@
     <<960, -2880, 0, 1920>> :> <<8397729, 1542187, 7340032>> @@
     <<960, -2880, 0, 2880>> :> <<6671704, 13656854, 12058624>> @@
     <<960, -2880, 480, -2880>> :> <<3335852, 6828427, 6029312>> @@
     <<960, -2880, 480, -1920>> :> <<5503561, 9084414, 6553600>>) @@
    (<<960, -2880, 480, -960>> :> <<8617183, 3515148, 1048576>> @@
     <<960, -2880, 480, 0>> :> <<10007557, 3708066, 1572864>> @@
     <<960, -2880, 480, 960>> :> <<8617183, 3515148, 1048576>> @@
     <<960, -2880, 480, 1920>> :> <<5503561, 9084414, 7077888>> @@
     <<960, -2880, 480, 2880>> :> <<3335852, 6828427, 6029312>> @@
     <<960, -2880, 960, -2880>> :> <<0, 0, 0>> @@
     <<960, -2880, 960, -1920>> :> <<3219656, 4331757, 5636096>> @@
     <<960, -2880, 960, -960>> :> <<5706288, 4756653, 9175040>> @@
     <<960, -2880, 960, 0>> :> <<6671704, 13656854, 12845056>> @@
     <<960, -2880, 960, 960>> :> <<5706288, 4756653, 9175040>> @@
     <<960, -2880, 960, 1920>> :> <<3219656, 4331757, 6160384>> @@
     <<960, -2880, 960, 2880>> :> <<0, 0, 219613, 6820436, 3645440>> @@
     <<960, -2880, 1440, -2880>> :> <<3335852, 6828427, 6160384>> @@
     <<960, -2880, 1440, -1920>> :> <<3335852, 6828427, 6160384>> @@
     <<960, -2880, 1440, -960>> :> <<3335852, 6828427, 6422528>> @@
     <<960, -2880, 1440, 0>> :> <<3335852, 6828427, 6422528>> @@
     <<960, -2880, 1440, 960>> :> <<3335852, 6828427, 6422528>> @@
     <<960, -2880, 1440, 1920>> :> <<3335852, 6828427, 6160384>> @@
     <<960, -2880, 1440, 2880>> :> <<3335852, 6828427, 6160384>> @@
     <<960, -2880, 0, 480>> :> <<12860701, 6086392, 14680064>>) @@
    (<<960, -2880, 160, 800>> :> <<11070886, 257622, 2621440>> @@
     <<960, -2880, 8, 0>> :> <<13287812, 1474837, 13631488>> @@
     <<960, -2880, 0, 720>> :> <<12309830, 5829382, 12582912>> @@
     <<960, -2880, 168, 804>> :> <<11009027, 1144419, 9437184>> @@
     <<960, -2880, 720, 1440>> :> <<5808692, 11325580, 6553600>> @@
     <<960, -2880, -480, -2400>> :> <<10377364, 4743563, 2097152>> @@
     <<960, -2880, 0, 240>> :> <<13218770, 6666553, 12058624>> @@
     <<960, -2880, 480, 480>> :> <<9637750, 2672569, 1048576>> @@
     <<960, -2880, -960, 2160>> :> <<13896638, 15752680, 6815744>> @@
     <<960, -2880, 160, 960>> :> <<10618953, 14189813, 7340032>> @@
     <<960, -2880, 16, 0>> :> <<13232214, 9190398, 3145728>> @@
     <<960, -2880, 0, 16>> :> <<13342849, 7025992, 10485760>> @@
     <<960, -2880, 0, 32>> :> <<13341169, 2218502, 16252928>> @@
     <<960, -2880, 16, 16>> :> <<13231659, 15554788, 2621440>> @@
     <<960, -2880, 0, 160>> :> <<13287668, 80208, 5767168>> @@
     <<960, -2880, 160, 0>> :> <<12231458, 13852756, 5242880>> @@
     <<960, -2880, 160, 160>> :> <<12180813, 2052242, 8388608>> @@
     <<960, -2880, 720, 720>> :> <<7645110, 3445086, 13631488>> @@
     <<960, -2880, -720, -1440>> :> <<14206421, 12867767, 13631488>> @@
     <<960, -2880, 720, -1440>> :> <<5808692, 11325580, 6291456>>) @@
    (<<960, -2880, -160, -960>> :> <<12605619, 12022025, 14680064>> @@
     <<960, -2880, 0, 1440>> :> <<10007557, 3708066, 1572864>> @@
     <<960, -2880, 0, -1440>> :> <<10007557, 3708066, 1048576>> @@
     <<960, -2880, 1, 1>> :> <<13336457, 12557053, 11534336>> @@
     <<960, -1920, -1440, -2880>> :> <<16679262, 587704, 12058624>> @@
     <<960, -1920, -1440, -1920>> :> <<16679262, 587704, 12058624>> @@
     <<960, -1920, -1440, -960>> :> <<16679262, 587704, 12058624>> @@
     <<960, -1920, -1440, 0>> :> <<16679262, 587704, 12058624>> @@
     <<960, -1920, -1440, 960>> :> <<16679262, 587704, 12058624>> @@
     <<960, -1920, -1440, 1920>> :> <<16679262, 587704, 12058624>> @@
     <<960, -1920, -1440, 2880>> :> <<16679262, 587704, 12058624>> @@
     <<960, -1920, -960, -2880>> :> <<14308826, 2659478, 9961472>> @@
     <<960, -1920, -960, -1920>> :> <<13343409, 10536493, 7340032>> @@
     <<960, -1920, -960, -960>> :> <<14308826, 2659478, 9961472>> @@
     <<960, -1920, -960, 0>> :> <<16795458, 3084374, 14680064>> @@
     <<960, -1920, -960, 960>> :> <<20015114, 7416132, 3145728>> @@
     <<960, -1920, -960, 1920>> :> <<16795458, 3084374, 14680064>> @@
     <<960, -1920, -960, 2880>> :> <<14308826, 2659478, 9961472>> @@
     <<960, -1920, -480, -2880>> :> <<11397931, 3900984, 2621440>> @@
     <<960, -1920, -480, -1920>> :> <<10007557, 3708066, 1048576>>) @@
    (<<960, -1920, -480, -960>> :> <<11397931, 3900984, 1572864>> @@
     <<960, -1920, -480, 0>> :> <<14511552, 15108933, 13107200>> @@
     <<960, -1920, -480, 960>> :> <<16679262, 587704, 13631488>> @@
     <<960, -1920, -480, 1920>> :> <<14511552, 15108933, 13107200>> @@
     <<960, -1920, -480, 2880>> :> <<11397931, 3900984, 2621440>> @@
     <<960, -1920, 0, -2880>> :> <<8397729, 1542187, 6815744>> @@
     <<960, -1920, 0, -1920>> :> <<6671704, 13656854, 12058624>> @@
     <<960, -1920, 0, -960>> :> <<8397729, 1542187, 6815744>> @@
     <<960, -1920, 0, 0>> :> <<11617385, 5873944, 12582912>> @@
     <<960, -1920, 0, 960>> :> <<13343409, 10536493, 7340032>> @@
     <<960, -1920, 0, 1920>> :> <<11617385, 5873944, 12582912>> @@
     <<960, -1920, 0, 2880>> :> <<8397729, 1542187, 7340032>> @@
     <<960, -1920, 480, -2880>> :> <<5503561, 9084414, 6553600>> @@
     <<960, -1920, 480, -1920>> :> <<3335852, 6828427, 6029312>> @@
     <<960, -1920, 480, -960>> :> <<5503561, 9084414, 6553600>> @@
     <<960, -1920, 480, 0>> :> <<8617183, 3515148, 524288>> @@
     <<960, -1920, 480, 960>> :> <<10007557, 3708066, 1572864>> @@
     <<960, -1920, 480, 1920>> :> <<8617183, 3515148, 1048576>> @@
     <<960, -1920, 480, 2880>> :> <<5503561, 9084414, 7077888>> @@
     <<960, -1920, 960, -2880>> :> <<3219656, 4331757, 5636096>>) @@
    (<<960, -1920, 960, -1920>> :> <<0, 0, 0>> @@
     <<960, -1920, 960, -960>> :> <<3219656, 4331757, 5373952>> @@
     <<960, -1920, 960, 0>> :> <<5706288, 4756653, 8912896>> @@
     <<960, -1920, 960, 960>> :> <<6671704, 13656854, 12845056>> @@
     <<960, -1920, 960, 1920>> :> <<5706288, 4756653, 9175040>> @@
     <<960, -1920, 960, 2880>> :> <<3219656, 4331757, 6160384>> @@
     <<960, -1920, 1440, -2880>> :> <<3335852, 6828427, 6160384>> @@
     <<960, -1920, 1440, -1920>> :> <<3335852, 6828427, 6160384>> @@
     <<960, -1920, 1440, -960>> :> <<3335852, 6828427, 6160384>> @@
     <<960, -1920, 1440, 0>> :> <<3335852, 6828427, 6422528>> @@
     <<960, -1920, 1440, 960>> :> <<3335852, 6828427, 6422528>> @@
     <<960, -1920, 1440, 1920>> :> <<3335852, 6828427, 6422528>> @@
     <<960, -1920, 1440, 2880>> :> <<3335852, 6828427, 6160384>> @@
     <<960, -1920, 0, 480>> :> <<12860701, 6086392, 14155776>> @@
     <<960, -1920, 160, 800>> :> <<12180813, 2052242, 8388608>> @@
     <<960, -1920, 8, 0>> :> <<11567645, 371273, 4194304>> @@
     <<960, -1920, 0, 720>> :> <<13218770, 6666553, 12058624>> @@
     <<960, -1920, 168, 804>> :> <<12127931, 1026608, 14155776>> @@
     <<960, -1920, 720, 1440>> :> <<8024999, 11111627, 4194304>> @@
     <<960, -1920, -480, -2400>> :> <<10377364, 4743563, 2097152>>) @@
    (<<960, -1920, 0, 240>> :> <<12309830, 5829382, 12582912>> @@
     <<960, -1920, 480, 480>> :> <<9637750, 2672569, 1048576>> @@
     <<960, -1920, -960, 2160>> :> <<16074158, 6746115, 15728640>> @@
     <<960, -1920, 160, 960>> :> <<12231458, 13852756, 5242880>> @@
     <<960, -1920, 16, 0>> :> <<11517880, 9076418, 14680064>> @@
     <<960, -1920, 0, 16>> :> <<11666910, 7336242, 8912896>> @@
     <<960, -1920, 0, 32>> :> <<11716020, 873243, 13107200>> @@
     <<960, -1920, 16, 16>> :> <<11567201, 13775338, 5242880>> @@
     <<960, -1920, 0, 160>> :> <<12092157, 12940336, 6291456>> @@
     <<960, -1920, 160, 0>> :> <<10618953, 14189813, 6815744>> @@
     <<960, -1920, 160, 160>> :> <<11070886, 257622, 2097152>> @@
     <<960, -1920, 720, 720>> :> <<8260036, 7033792, 14417920>> @@
     <<960, -1920, -720, -1440>> :> <<11990114, 13081720, 15204352>> @@
     <<960, -1920, 720, -1440>> :> <<2589036, 6993823, 655360>> @@
     <<960, -1920, -160, -960>> :> <<9396160, 10003534, 12058624>> @@
     <<960, -1920, 0, 1440>> :> <<12860701, 6086392, 14680064>> @@
     <<960, -1920, 0, -1440>> :> <<7154413, 1329739, 5505024>> @@
     <<960, -1920, 1, 1>> :> <<11614275, 9904480, 7864320>> @@
     <<960, -960, -1440, -2880>> :> <<16679262, 587704, 12058624>> @@
     <<960, -960, -1440, -1920>> :> <<16679262, 587704, 12058624>>) @@
    (<<960, -960, -1440, -960>> :> <<16679262, 587704, 12058624>> @@
     <<960, -960, -1440, 0>> :> <<16679262, 587704, 12058624>> @@
     <<960, -960, -1440, 960>> :> <<16679262, 587704, 12058624>> @@
     <<960, -960, -1440, 1920>> :> <<16679262, 587704, 12058624>> @@
     <<960, -960, -1440, 2880>> :> <<16679262, 587704, 12058624>> @@
     <<960, -960, -960, -2880>> :> <<16795458, 3084374, 14680064>> @@
     <<960, -960, -960, -1920>> :> <<14308826, 2659478, 9961472>> @@
     <<960, -960, -960, -960>> :> <<13343409, 10536493, 7340032>> @@
     <<960, -960, -960, 0>> :> <<14308826, 2659478, 9961472>> @@
     <<960, -960, -960, 960>> :> <<16795458, 3084374, 14680064>> @@
     <<960, -960, -960, 1920>> :> <<20015114, 7416132, 3145728>> @@
     <<960, -960, -960, 2880>> :> <<16795458, 3084374, 14680064>> @@
     <<960, -960, -480, -2880>> :> <<14511552, 15108933, 13107200>> @@
     <<960, -960, -480, -1920>> :> <<11397931, 3900984, 1572864>> @@
     <<960, -960, -480, -960>> :> <<10007557, 3708066, 1048576>> @@
     <<960, -960, -480, 0>> :> <<11397931, 3900984, 1572864>> @@
     <<960, -960, -480, 960>> :> <<14511552, 15108933, 13107200>> @@
     <<960, -960, -480, 1920>> :> <<16679262, 587704, 13631488>> @@
     <<960, -960, -480, 2880>> :> <<14511552, 15108933, 13107200>> @@
     <<960, -960, 0, -2880>> :> <<11617385, 5873944, 12582912>>) @@
    (<<960, -960, 0, -1920>> :> <<8397729, 1542187, 6815744>> @@
     <<960, -960, 0, -960>> :> <<6671704, 13656854, 12058624>> @@
     <<960, -960, 0, 0>> :> <<8397729, 1542187, 6815744>> @@
     <<960, -960, 0, 960>> :> <<11617385, 5873944, 12582912>> @@
     <<960, -960, 0, 1920>> :> <<13343409, 10536493, 7340032>> @@
     <<960, -960, 0, 2880>> :> <<11617385, 5873944, 12582912>> @@
     <<960, -960, 480, -2880>> :> <<8617183, 3515148, 1048576>> @@
     <<960, -960, 480, -1920>> :> <<5503561, 9084414, 6553600>> @@
     <<960, -960, 480, -960>> :> <<3335852, 6828427, 6029312>> @@
     <<960, -960, 480, 0>> :> <<5503561, 9084414, 6553600>> @@
     <<960, -960, 480, 960>> :> <<8617183, 3515148, 524288>> @@
     <<960, -960, 480, 1920>> :> <<10007557, 3708066, 1572864>> @@
     <<960, -960, 480, 2880>> :> <<8617183, 3515148, 1048576>> @@
     <<960, -960, 960, -2880>> :> <<5706288, 4756653, 9175040>> @@
     <<960, -960, 960, -1920>> :> <<3219656, 4331757, 5373952>> @@
     <<960, -960, 960, -960>> :> <<0, 0, 0>> @@
     <<960, -960, 960, 0>> :> <<3219656, 4331757, 5373952>> @@
     <<960, -960, 960, 960>> :> <<5706288, 4756653, 8912896>> @@
     <<960, -960, 960, 1920>> :> <<6671704, 13656854, 12845056>> @@
     <<960, -960, 960, 2880>> :> <<5706288, 4756653, 9175040>>) @@
    (<<960, -960, 1440, -2880>> :> <<3335852, 6828427, 6422528>> @@
     <<960, -960, 1440, -1920>> :> <<3335852, 6828427, 6160384>> @@
     <<960, -960, 1440, -960>> :> <<3335852, 6828427, 6160384>> @@
     <<960, -960, 1440, 0>> :> <<3335852, 6828427, 6160384>> @@
     <<960, -960, 1440, 960>> :> <<3335852, 6828427, 6422528>> @@
     <<960, -960, 1440, 1920>> :> <<3335852, 6828427, 6422528>> @@
     <<960, -960, 1440, 2880>> :> <<3335852, 6828427, 6422528>> @@
     <<960, -960, 0, 480>> :> <<10007557, 3708066, 1048576>> @@
     <<960, -960, 160, 800>> :> <<10122421, 16330109, 13631488>> @@
     <<960, -960, 8, 0>> :> <<8348013, 13750754, 11534336>> @@
     <<960, -960, 0, 720>> :> <<10834345, 2546393, 13631488>> @@
     <<960, -960, 168, 804>> :> <<10086177, 13460099, 16252928>> @@
     <<960, -960, 720, 1440>> :> <<8024999, 11111627, 4194304>> @@
     <<960, -960, -480, -2400>> :> <<12860701, 6086392, 14680064>> @@
     <<960, -960, 0, 240>> :> <<9180769, 4869738, 5767168>> @@
     <<960, -960, 480, 480>> :> <<7154413, 1329739, 5505024>> @@
     <<960, -960, -960, 2160>> :> <<19182939, 7802713, 4194304>> @@
     <<960, -960, 160, 960>> :> <<10618953, 14189813, 6815744>> @@
     <<960, -960, 16, 0>> :> <<8298324, 8698464, 10485760>> @@
     <<960, -960, 0, 16>> :> <<8447655, 1017950, 1048576>>) @@
    (<<960, -960, 0, 32>> :> <<8497967, 7010350, 5767168>> @@
     <<960, -960, 16, 16>> :> <<8348447, 7170881, 1572864>> @@
     <<960, -960, 0, 160>> :> <<8912669, 1477140, 15728640>> @@
     <<960, -960, 160, 0>> :> <<7409494, 12171322, 4980736>> @@
     <<960, -960, 160, 160>> :> <<7940427, 16370547, 12845056>> @@
     <<960, -960, 720, 720>> :> <<6517103, 1676960, 11534336>> @@
     <<960, -960, -720, -1440>> :> <<11990114, 13081720, 16252928>> @@
     <<960, -960, 720, -1440>> :> <<2589036, 6993823, 786432>> @@
     <<960, -960, -160, -960>> :> <<7783655, 10340591, 13893632>> @@
     <<960, -960, 0, 1440>> :> <<12860701, 6086392, 14155776>> @@
     <<960, -960, 0, -1440>> :> <<7154413, 1329739, 5505024>> @@
     <<960, -960, 1, 1>> :> <<8394622, 14352245, 5767168>> @@
     <<960, 0, -1440, -2880>> :> <<16679262, 587704, 12058624>> @@
     <<960, 0, -1440, -1920>> :> <<16679262, 587704, 12058624>> @@
     <<960, 0, -1440, -960>> :> <<16679262, 587704, 12058624>> @@
     <<960, 0, -1440, 0>> :> <<16679262, 587704, 12058624>> @@
     <<960, 0, -1440, 960>> :> <<16679262, 587704, 12058624>> @@
     <<960, 0, -1440, 1920>> :> <<16679262, 587704, 12058624>> @@
     <<960, 0, -1440, 2880>> :> <<16679262, 587704, 12058624>> @@
     <<960, 0, -960, -2880>> :> <<20015114, 7416132, 3145728>>) @@
    (<<960, 0, -960, -1920>> :> <<16795458, 3084374, 14680064>> @@
     <<960, 0, -960, -960>> :> <<14308826, 2659478, 9961472>> @@
     <<960, 0, -960, 0>> :> <<13343409, 10536493, 7340032>> @@
     <<960, 0, -960, 960>> :> <<14308826, 2659478, 9961472>> @@
     <<960, 0, -960, 1920>> :> <<16795458, 3084374, 14680064>> @@
     <<960, 0, -960, 2880>> :> <<20015114, 7416132, 3145728>> @@
     <<960, 0, -480, -2880>> :> <<16679262, 587704, 13631488>> @@
     <<960, 0, -480, -1920>> :> <<14511552, 15108933, 13107200>> @@
     <<960, 0, -480, -960>> :> <<11397931, 3900984, 1572864>> @@
     <<960, 0, -480, 0>> :> <<10007557, 3708066, 1048576>> @@
     <<960, 0, -480, 960>> :> <<11397931, 3900984, 1572864>> @@
     <<960, 0, -480, 1920>> :> <<14511552, 15108933, 13107200>> @@
     <<960, 0, -480, 2880>> :> <<16679262, 587704, 13631488>> @@
     <<960, 0, 0, -2880>> :> <<13343409, 10536493, 7340032>> @@
     <<960, 0, 0, -1920>> :> <<11617385, 5873944, 12582912>> @@
     <<960, 0, 0, -960>> :> <<8397729, 1542187, 6815744>> @@
     <<960, 0, 0, 0>> :> <<6671704, 13656854, 12058624>> @@
     <<960, 0, 0, 960>> :> <<8397729, 1542187, 6815744>> @@
     <<960, 0, 0, 1920>> :> <<11617385, 5873944, 12582912>> @@
     <<960, 0, 0, 2880>> :> <<13343409, 10536493, 7340032>>) @@
    (<<960, 0, 480, -2880>> :> <<10007557, 3708066, 1572864>> @@
     <<960, 0, 480, -1920>> :> <<8617183, 3515148, 524288>> @@
     <<960, 0, 480, -960>> :> <<5503561, 9084414, 6553600>> @@
     <<960, 0, 480, 0>> :> <<3335852, 6828427, 6029312>> @@
     <<960, 0, 480, 960>> :> <<5503561, 9084414, 6553600>> @@
     <<960, 0, 480, 1920>> :> <<8617183, 3515148, 524288>> @@
     <<960, 0, 480, 2880>> :> <<10007557, 3708066, 1572864>> @@
     <<960, 0, 960, -2880>> :> <<6671704, 13656854, 12845056>> @@
     <<960, 0, 960, -1920>> :> <<5706288, 4756653, 8912896>> @@
     <<960, 0, 960, -960>> :> <<3219656, 4331757, 5373952>> @@
     <<960, 0, 960, 0>> :> <<0, 0, 0>> @@
     <<960, 0, 960, 960>> :> <<3219656, 4331757, 5373952>> @@
     <<960, 0, 960, 1920>> :> <<5706288, 4756653, 8912896>> @@
     <<960, 0, 960, 2880>> :> <<6671704, 13656854, 12845056>> @@
     <<960, 0, 1440, -2880>> :> <<3335852, 6828427, 6422528>> @@
     <<960, 0, 1440, -1920>> :> <<3335852, 6828427, 6422528>> @@
     <<960, 0, 1440, -960>> :> <<3335852, 6828427, 6160384>> @@
     <<960, 0, 1440, 0>> :> <<3335852, 6828427, 6160384>> @@
     <<960, 0, 1440, 960>> :> <<3335852, 6828427, 6160384>> @@
     <<960, 0, 1440, 1920>> :> <<3335852, 6828427, 6422528>>) @@
    (<<960, 0, 1440, 2880>> :> <<3335852, 6828427, 6422528>> @@
     <<960, 0, 0, 480>> :> <<7154413, 1329739, 5505024>> @@
     <<960, 0, 160, 800>> :> <<6912673, 3454420, 15204352>> @@
     <<960, 0, 8, 0>> :> <<6616107, 4595199, 1048576>> @@
     <<960, 0, 0, 720>> :> <<7705284, 1586749, 7077888>> @@
     <<960, 0, 168, 804>> :> <<6874489, 16029652, 1048576>> @@
     <<960, 0, 720, 1440>> :> <<5808692, 11325580, 6291456>> @@
     <<960, 0, -480, -2400>> :> <<16001218, 13157294, 9961472>> @@
     <<960, 0, 0, 240>> :> <<6796344, 749578, 8126464>> @@
     <<960, 0, 480, 480>> :> <<4013895, 11036053, 10616832>> @@
     <<960, 0, -960, 2160>> :> <<17561907, 5471814, 7340032>> @@
     <<960, 0, 160, 960>> :> <<7409494, 12171322, 4980736>> @@
     <<960, 0, 16, 0>> :> <<6560509, 12310759, 6553600>> @@
     <<960, 0, 0, 16>> :> <<6672265, 390139, 8650752>> @@
     <<960, 0, 0, 32>> :> <<6673945, 5197629, 3407872>> @@
     <<960, 0, 16, 16>> :> <<6561075, 10827520, 6815744>> @@
     <<960, 0, 0, 160>> :> <<6727446, 7335923, 13369344>> @@
     <<960, 0, 160, 0>> :> <<5559754, 195901, 9961472>> @@
     <<960, 0, 160, 160>> :> <<5621717, 8779666, 1835008>> @@
     <<960, 0, 720, 720>> :> <<3382108, 2659017, 9437184>>) @@
    (<<960, 0, -720, -1440>> :> <<14206421, 12867767, 13631488>> @@
     <<960, 0, 720, -1440>> :> <<5808692, 11325580, 6291456>> @@
     <<960, 0, -160, -960>> :> <<9396160, 10003534, 12058624>> @@
     <<960, 0, 0, 1440>> :> <<10007557, 3708066, 1048576>> @@
     <<960, 0, 0, -1440>> :> <<10007557, 3708066, 1048576>> @@
     <<960, 0, 1, 1>> :> <<6664757, 5222823, 1572864>> @@
     <<960, 960, -1440, -2880>> :> <<16679262, 587704, 12058624>> @@
     <<960, 960, -1440, -1920>> :> <<16679262, 587704, 12058624>> @@
     <<960, 960, -1440, -960>> :> <<16679262, 587704, 12058624>> @@
     <<960, 960, -1440, 0>> :> <<16679262, 587704, 12058624>> @@
     <<960, 960, -1440, 960>> :> <<16679262, 587704, 12058624>> @@
     <<960, 960, -1440, 1920>> :> <<16679262, 587704, 12058624>> @@
     <<960, 960, -1440, 2880>> :> <<16679262, 587704, 12058624>> @@
     <<960, 960, -960, -2880>> :> <<16795458, 3084374, 14680064>> @@
     <<960, 960, -960, -1920>> :> <<20015114, 7416132, 3145728>> @@
     <<960, 960, -960, -960>> :> <<16795458, 3084374, 14680064>> @@
     <<960, 960, -960, 0>> :> <<14308826, 2659478, 9961472>> @@
     <<960, 960, -960, 960>> :> <<13343409, 10536493, 7340032>> @@
     <<960, 960, -960, 1920>> :> <<14308826, 2659478, 9961472>> @@
     <<960, 960, -960, 2880>> :> <<16795458, 3084374, 14680064>>) @@
    (<<960, 960, -480, -2880>> :> <<14511552, 15108933, 13107200>> @@
     <<960, 960, -480, -1920>> :> <<16679262, 587704, 13631488>> @@
     <<960, 960, -480, -960>> :> <<14511552, 15108933, 13107200>> @@
     <<960, 960, -480, 0>> :> <<11397931, 3900984, 1572864>> @@
     <<960, 960, -480, 960>> :> <<10007557, 3708066, 1048576>> @@
     <<960, 960, -480, 1920>> :> <<11397931, 3900984, 1572864>> @@
     <<960, 960, -480, 2880>> :> <<14511552, 15108933, 13107200>> @@
     <<960, 960, 0, -2880>> :> <<11617385, 5873944, 12582912>> @@
     <<960, 960, 0, -1920>> :> <<13343409, 10536493, 7340032>> @@
     <<960, 960, 0, -960>> :> <<11617385, 5873944, 12582912>> @@
     <<960, 960, 0, 0>> :> <<8397729, 1542187, 6815744>> @@
     <<960, 960, 0, 960>> :> <<6671704, 13656854, 12058624>> @@
     <<960, 960, 0, 1920>> :> <<8397729, 1542187, 6815744>> @@
     <<960, 960, 0, 2880>> :> <<11617385, 5873944, 12582912>> @@
     <<960, 960, 480, -2880>> :> <<8617183, 3515148, 1048576>> @@
     <<960, 960, 480, -1920>> :> <<10007557, 3708066, 1572864>> @@
     <<960, 960, 480, -960>> :> <<8617183, 3515148, 524288>> @@
     <<960, 960, 480, 0>> :> <<5503561, 9084414, 6553600>> @@
     <<960, 960, 480, 960>> :> <<3335852, 6828427, 6029312>> @@
     <<960, 960, 480, 1920>> :> <<5503561, 9084414, 6553600>>) @@
    (<<960, 960, 480, 2880>> :> <<8617183, 3515148, 1048576>> @@
     <<960, 960, 960, -2880>> :> <<5706288, 4756653, 9175040>> @@
     <<960, 960, 960, -1920>> :> <<6671704, 13656854, 12845056>> @@
     <<960, 960, 960, -960>> :> <<5706288, 4756653, 8912896>> @@
     <<960, 960, 960, 0>> :> <<3219656, 4331757, 5373952>> @@
     <<960, 960, 960, 960>> :> <<0, 0, 0>> @@
     <<960, 960, 960, 1920>> :> <<3219656, 4331757, 5373952>> @@
     <<960, 960, 960, 2880>> :> <<5706288, 4756653, 9175040>> @@
     <<960, 960, 1440, -2880>> :> <<3335852, 6828427, 6422528>> @@
     <<960, 960, 1440, -1920>> :> <<3335852, 6828427, 6422528>> @@
     <<960, 960, 1440, -960>> :> <<3335852, 6828427, 6422528>> @@
     <<960, 960, 1440, 0>> :> <<3335852, 6828427, 6160384>> @@
     <<960, 960, 1440, 960>> :> <<3335852, 6828427, 6160384>> @@
     <<960, 960, 1440, 1920>> :> <<3335852, 6828427, 6160384>> @@
     <<960, 960, 1440, 2880>> :> <<3335852, 6828427, 6422528>> @@
     <<960, 960, 0, 480>> :> <<7154413, 1329739, 5505024>> @@
     <<960, 960, 160, 800>> :> <<5621717, 8779666, 1835008>> @@
     <<960, 960, 8, 0>> :> <<8348013, 13750754, 11534336>> @@
     <<960, 960, 0, 720>> :> <<6796344, 749578, 8126464>> @@
     <<960, 960, 168, 804>> :> <<5563417, 8170239, 11796480>>) @@
    (<<960, 960, 720, 1440>> :> <<2589036, 6993823, 786432>> @@
     <<960, 960, -480, -2400>> :> <<16001218, 13157294, 9961472>> @@
     <<960, 960, 0, 240>> :> <<7705284, 1586749, 7077888>> @@
     <<960, 960, 480, 480>> :> <<4013895, 11036053, 10616832>> @@
     <<960, 960, -960, 2160>> :> <<14817726, 5721253, 3670016>> @@
     <<960, 960, 160, 960>> :> <<5559754, 195901, 9961472>> @@
     <<960, 960, 16, 0>> :> <<8298324, 8698464, 10485760>> @@
     <<960, 960, 0, 16>> :> <<8348204, 79889, 9961472>> @@
     <<960, 960, 0, 32>> :> <<8299094, 6542888, 5767168>> @@
     <<960, 960, 16, 16>> :> <<8248597, 2658785, 2621440>> @@
     <<960, 960, 0, 160>> :> <<7922956, 11253011, 12582912>> @@
     <<960, 960, 160, 0>> :> <<7409494, 12171322, 4980736>> @@
     <<960, 960, 160, 160>> :> <<6912673, 3454420, 15204352>> @@
     <<960, 960, 720, 720>> :> <<1942482, 3015182, 13828096>> @@
     <<960, 960, -720, -1440>> :> <<17426078, 422309, 2097152>> @@
     <<960, 960, 720, -1440>> :> <<8024999, 11111627, 4194304>> @@
     <<960, 960, -160, -960>> :> <<12605619, 12022025, 13631488>> @@
     <<960, 960, 0, 1440>> :> <<7154413, 1329739, 5505024>> @@
     <<960, 960, 0, -1440>> :> <<12860701, 6086392, 14155776>> @@
     <<960, 960, 1, 1>> :> <<8388405, 4985735, 13631488>>) @@
    (<<960, 1920, -1440, -2880>> :> <<16679262, 587704, 12058624>> @@
     <<960, 1920, -1440, -1920>> :> <<16679262, 587704, 12058624>> @@
     <<960, 1920, -1440, -960>> :> <<16679262, 587704, 12058624>> @@
     <<960, 1920, -1440, 0>> :> <<16679262, 587704, 12058624>> @@
     <<960, 1920, -1440, 960>> :> <<16679262, 587704, 12058624>> @@
     <<960, 1920, -1440, 1920>> :> <<16679262, 587704, 12058624>> @@
     <<960, 1920, -1440, 2880>> :> <<16679262, 587704, 12058624>> @@
     <<960, 1920, -960, -2880>> :> <<14308826, 2659478, 9961472>> @@
     <<960, 1920, -960, -1920>> :> <<16795458, 3084374, 14680064>> @@
     <<960, 1920, -960, -960>> :> <<20015114, 7416132, 3145728>> @@
     <<960, 1920, -960, 0>> :> <<16795458, 3084374, 14680064>> @@
     <<960, 1920, -960, 960>> :> <<14308826, 2659478, 9961472>> @@
     <<960, 1920, -960, 1920>> :> <<13343409, 10536493, 7340032>> @@
     <<960, 1920, -960, 2880>> :> <<14308826, 2659478, 9961472>> @@
     <<960, 1920, -480, -2880>> :> <<11397931, 3900984, 2621440>> @@
     <<960, 1920, -480, -1920>> :> <<14511552, 15108933, 13107200>> @@
     <<960, 1920, -480, -960>> :> <<16679262, 587704, 13631488>> @@
     <<960, 1920, -480, 0>> :> <<14511552, 15108933, 13107200>> @@
     <<960, 1920, -480, 960>> :> <<11397931, 3900984, 1572864>> @@
     <<960, 1920, -480, 1920>> :> <<10007557, 3708066, 1048576>>) @@
    (<<960, 1920, -480, 2880>> :> <<11397931, 3900984, 2621440>> @@
     <<960, 1920, 0, -2880>> :> <<8397729, 1542187, 7340032>> @@
     <<960, 1920, 0, -1920>> :> <<11617385, 5873944, 12582912>> @@
     <<960, 1920, 0, -960>> :> <<13343409, 10536493, 7340032>> @@
     <<960, 1920, 0, 0>> :> <<11617385, 5873944, 12582912>> @@
     <<960, 1920, 0, 960>> :> <<8397729, 1542187, 6815744>> @@
     <<960, 1920, 0, 1920>> :> <<6671704, 13656854, 12058624>> @@
     <<960, 1920, 0, 2880>> :> <<8397729, 1542187, 6815744>> @@
     <<960, 1920, 480, -2880>> :> <<5503561, 9084414, 7077888>> @@
     <<960, 1920, 480, -1920>> :> <<8617183, 3515148, 1048576>> @@
     <<960, 1920, 480, -960>> :> <<10007557, 3708066, 1572864>> @@
     <<960, 1920, 480, 0>> :> <<8617183, 3515148, 524288>> @@
     <<960, 1920, 480, 960>> :> <<5503561, 9084414, 6553600>> @@
     <<960, 1920, 480, 1920>> :> <<3335852, 6828427, 6029312>> @@
     <<960, 1920, 480, 2880>> :> <<5503561, 9084414, 6553600>> @@
     <<960, 1920, 960, -2880>> :> <<3219656, 4331757, 6160384>> @@
     <<960, 1920, 960, -1920>> :> <<5706288, 4756653, 9175040>> @@
     <<960, 1920, 960, -960>> :> <<6671704, 13656854, 12845056>> @@
     <<960, 1920, 960, 0>> :> <<5706288, 4756653, 8912896>> @@
     <<960, 1920, 960, 960>> :> <<3219656, 4331757, 5373952>>) @@
    (<<960, 1920, 960, 1920>> :> <<0, 0, 0>> @@
     <<960, 1920, 960, 2880>> :> <<3219656, 4331757, 5636096>> @@
     <<960, 1920, 1440, -2880>> :> <<3335852, 6828427, 6160384>> @@
     <<960, 1920, 1440, -1920>> :> <<3335852, 6828427, 6422528>> @@
     <<960, 1920, 1440, -960>> :> <<3335852, 6828427, 6422528>> @@
     <<960, 1920, 1440, 0>> :> <<3335852, 6828427, 6422528>> @@
     <<960, 1920, 1440, 960>> :> <<3335852, 6828427, 6160384>> @@
     <<960, 1920, 1440, 1920>> :> <<3335852, 6828427, 6160384>> @@
     <<960, 1920, 1440, 2880>> :> <<3335852, 6828427, 6160384>> @@
     <<960, 1920, 0, 480>> :> <<10007557, 3708066, 1048576>> @@
     <<960, 1920, 160, 800>> :> <<7940427, 16370547, 12845056>> @@
     <<960, 1920, 8, 0>> :> <<11567645, 371273, 4194304>> @@
     <<960, 1920, 0, 720>> :> <<9180769, 4869738, 5767168>> @@
     <<960, 1920, 168, 804>> :> <<7878583, 14717913, 9175040>> @@
     <<960, 1920, 720, 1440>> :> <<2589036, 6993823, 655360>> @@
     <<960, 1920, -480, -2400>> :> <<12860701, 6086392, 14680064>> @@
     <<960, 1920, 0, 240>> :> <<10834345, 2546393, 13631488>> @@
     <<960, 1920, 480, 480>> :> <<7154413, 1329739, 5505024>> @@
     <<960, 1920, -960, 2160>> :> <<13406257, 3249172, 15728640>> @@
     <<960, 1920, 160, 960>> :> <<7409494, 12171322, 4980736>>) @@
    (<<960, 1920, 16, 0>> :> <<11517880, 9076418, 14680064>> @@
     <<960, 1920, 0, 16>> :> <<11567459, 6398182, 2097152>> @@
     <<960, 1920, 0, 32>> :> <<11517147, 405781, 14155776>> @@
     <<960, 1920, 16, 16>> :> <<11468153, 3514851, 7864320>> @@
     <<960, 1920, 0, 160>> :> <<11102445, 5938991, 3145728>> @@
     <<960, 1920, 160, 0>> :> <<10618953, 14189813, 6815744>> @@
     <<960, 1920, 160, 160>> :> <<10122421, 16330109, 13107200>> @@
     <<960, 1920, 720, 720>> :> <<5032796, 12595315, 13631488>> @@
     <<960, 1920, -720, -1440>> :> <<17426078, 422309, 2097152>> @@
     <<960, 1920, 720, -1440>> :> <<8024999, 11111627, 4194304>> @@
     <<960, 1920, -160, -960>> :> <<14455360, 7220230, 9437184>> @@
     <<960, 1920, 0, 1440>> :> <<7154413, 1329739, 5505024>> @@
     <<960, 1920, 0, -1440>> :> <<12860701, 6086392, 14680064>> @@
     <<960, 1920, 1, 1>> :> <<11608061, 2749585, 5767168>> @@
     <<960, 2880, -1440, -2880>> :> <<16679262, 587704, 12058624>> @@
     <<960, 2880, -1440, -1920>> :> <<16679262, 587704, 12058624>> @@
     <<960, 2880, -1440, -960>> :> <<16679262, 587704, 12058624>> @@
     <<960, 2880, -1440, 0>> :> <<16679262, 587704, 12058624>> @@
     <<960, 2880, -1440, 960>> :> <<16679262, 587704, 12058624>> @@
     <<960, 2880, -1440, 1920>> :> <<16679262, 587704, 12058624>>) @@
    (<<960, 2880, -1440, 2880>> :> <<16679262, 587704, 12058624>> @@
     <<960, 2880, -960, -2880>> :> <<13343409, 10536493, 7340032>> @@
     <<960, 2880, -960, -1920>> :> <<14308826, 2659478, 9961472>> @@
     <<960, 2880, -960, -960>> :> <<16795458, 3084374, 14680064>> @@
     <<960, 2880, -960, 0>> :> <<20015114, 7416132, 3145728>> @@
     <<960, 2880, -960, 960>> :> <<16795458, 3084374, 14680064>> @@
     <<960, 2880, -960, 1920>> :> <<14308826, 2659478, 9961472>> @@
     <<960, 2880, -960, 2880>> :> <<13343409, 10536493, 7340032>> @@
     <<960, 2880, -480, -2880>> :> <<10007557, 3708066, 1048576>> @@
     <<960, 2880, -480, -1920>> :> <<11397931, 3900984, 2621440>> @@
     <<960, 2880, -480, -960>> :> <<14511552, 15108933, 13107200>> @@
     <<960, 2880, -480, 0>> :> <<16679262, 587704, 13631488>> @@
     <<960, 2880, -480, 960>> :> <<14511552, 15108933, 13107200>> @@
     <<960, 2880, -480, 1920>> :> <<11397931, 3900984, 2621440>> @@
     <<960, 2880, -480, 2880>> :> <<10007557, 3708066, 1048576>> @@
     <<960, 2880, 0, -2880>> :> <<6671704, 13656854, 12058624>> @@
     <<960, 2880, 0, -1920>> :> <<8397729, 1542187, 7340032>> @@
     <<960, 2880, 0, -960>> :> <<11617385, 5873944, 12582912>> @@
     <<960, 2880, 0, 0>> :> <<13343409, 10536493, 7340032>> @@
     <<960, 2880, 0, 960>> :> <<11617385, 5873944, 12582912>>) @@
    (<<960, 2880, 0, 1920>> :> <<8397729, 1542187, 6815744>> @@
     <<960, 2880, 0, 2880>> :> <<6671704, 13656854, 12058624>> @@
     <<960, 2880, 480, -2880>> :> <<3335852, 6828427, 6029312>> @@
     <<960, 2880, 480, -1920>> :> <<5503561, 9084414, 7077888>> @@
     <<960, 2880, 480, -960>> :> <<8617183, 3515148, 1048576>> @@
     <<960, 2880, 480, 0>> :> <<10007557, 3708066, 1572864>> @@
     <<960, 2880, 480, 960>> :> <<8617183, 3515148, 1048576>> @@
     <<960, 2880, 480, 1920>> :> <<5503561, 9084414, 6553600>> @@
     <<960, 2880, 480, 2880>> :> <<3335852, 6828427, 6029312>> @@
     <<960, 2880, 960, -2880>> :> <<0, 0, 219613, 6820436, 3645440>> @@
     <<960, 2880, 960, -1920>> :> <<3219656, 4331757, 6160384>> @@
     <<960, 2880, 960, -960>> :> <<5706288, 4756653, 9175040>> @@
     <<960, 2880, 960, 0>> :> <<6671704, 13656854, 12845056>> @@
     <<960, 2880, 960, 960>> :> <<5706288, 4756653, 9175040>> @@
     <<960, 2880, 960, 1920>> :> <<3219656, 4331757, 5636096>> @@
     <<960, 2880, 960, 2880>> :> <<0, 0, 0>> @@
     <<960, 2880, 1440, -2880>> :> <<3335852, 6828427, 6160384>> @@
     <<960, 2880, 1440, -1920>> :> <<3335852, 6828427, 6160384>> @@
     <<960, 2880, 1440, -960>> :> <<3335852, 6828427, 6422528>> @@
     <<960, 2880, 1440, 0>> :> <<3335852, 6828427, 6422528>>) @@
    (<<960, 2880, 1440, 960>> :> <<3335852, 6828427, 6422528>> @@
     <<960, 2880, 1440, 1920>> :> <<3335852, 6828427, 6160384>> @@
     <<960, 2880, 1440, 2880>> :> <<3335852, 6828427, 6160384>> @@
     <<960, 2880, 0, 480>> :> <<12860701, 6086392, 14680064>> @@
     <<960, 2880, 160, 800>> :> <<11070886, 257622, 2621440>> @@
     <<960, 2880, 8, 0>> :> <<13287812, 1474837, 13631488>> @@
     <<960, 2880, 0, 720>> :> <<12309830, 5829382, 12582912>> @@
     <<960, 2880, 168, 804>> :> <<11009027, 1144419, 9437184>> @@
     <<960, 2880, 720, 1440>> :> <<5808692, 11325580, 6291456>> @@
     <<960, 2880, -480, -2400>> :> <<10377364, 4743563, 1572864>> @@
     <<960, 2880, 0, 240>> :> <<13218770, 6666553, 12058624>> @@
     <<960, 2880, 480, 480>> :> <<9637750, 2672569, 1048576>> @@
     <<960, 2880, -960, 2160>> :> <<13896638, 15752680, 6815744>> @@
     <<960, 2880, 160, 960>> :> <<10618953, 14189813, 7340032>> @@
     <<960, 2880, 16, 0>> :> <<13232214, 9190398, 3145728>> @@
     <<960, 2880, 0, 16>> :> <<13342849, 7025992, 10485760>> @@
     <<960, 2880, 0, 32>> :> <<13341169, 2218502, 16252928>> @@
     <<960, 2880, 16, 16>> :> <<13231659, 15554788, 2621440>> @@
     <<960, 2880, 0, 160>> :> <<13287668, 80208, 5767168>> @@
     <<960, 2880, 160, 0>> :> <<12231458, 13852756, 5242880>>) @@
    (<<960, 2880, 160, 160>> :> <<12180813, 2052242, 8388608>> @@
     <<960, 2880, 720, 720>> :> <<7645110, 3445086, 13631488>> @@
     <<960, 2880, -720, -1440>> :> <<14206421, 12867767, 13631488>> @@
     <<960, 2880, 720, -1440>> :> <<5808692, 11325580, 6553600>> @@
     <<960, 2880, -160, -960>> :> <<12605619, 12022025, 14680064>> @@
     <<960, 2880, 0, 1440>> :> <<10007557, 3708066, 1048576>> @@
     <<960, 2880, 0, -1440>> :> <<10007557, 3708066, 1572864>> @@
     <<960, 2880, 1, 1>> :> <<13336457, 12557053, 11534336>> @@
     <<1440, -2880, -1440, -2880>> :> <<20015114, 7416132, 3145728>> @@
     <<1440, -2880, -1440, -1920>> :> <<20015114, 7416132, 3145728>> @@
     <<1440, -2880, -1440, -960>> :> <<20015114, 7416132, 3145728>> @@
     <<1440, -2880, -1440, 0>> :> <<20015114, 7416132, 3145728>> @@
     <<1440, -2880, -1440, 960>> :> <<20015114, 7416132, 3145728>> @@
     <<1440, -2880, -1440, 1920>> :> <<20015114, 7416132, 3145728>> @@
     <<1440, -2880, -1440, 2880>> :> <<20015114, 7416132, 3145728>> @@
     <<1440, -2880, -960, -2880>> :> <<16679262, 587704, 12058624>> @@
     <<1440, -2880, -960, -1920>> :> <<16679262, 587704, 12058624>> @@
     <<1440, -2880, -960, -960>> :> <<16679262, 587704, 12058624>> @@
     <<1440, -2880, -960, 0>> :> <<16679262, 587704, 12058624>> @@
     <<1440, -2880, -960, 960>> :> <<16679262, 587704, 12058624>>) @@
    (<<1440, -2880, -960, 1920>> :> <<16679262, 587704, 12058624>> @@
     <<1440, -2880, -960, 2880>> :> <<16679262, 587704, 12058624>> @@
     <<1440, -2880, -480, -2880>> :> <<13343409, 10536493, 7340032>> @@
     <<1440, -2880, -480, -1920>> :> <<13343409, 10536493, 7340032>> @@
     <<1440, -2880, -480, -960>> :> <<13343409, 10536493, 7340032>> @@
     <<1440, -2880, -480, 0>> :> <<13343409, 10536493, 7340032>> @@
     <<1440, -2880, -480, 960>> :> <<13343409, 10536493, 7340032>> @@
     <<1440, -2880, -480, 1920>> :> <<13343409, 10536493, 7340032>> @@
     <<1440, -2880, -480, 2880>> :> <<13343409, 10536493, 7340032>> @@
     <<1440, -2880, 0, -2880>> :> <<10007557, 3708066, 1048576>> @@
     <<1440, -2880, 0, -1920>> :> <<10007557, 3708066, 1048576>> @@
     <<1440, -2880, 0, -960>> :> <<10007557, 3708066, 1048576>> @@
     <<1440, -2880, 0, 0>> :> <<10007557, 3708066, 1048576>> @@
     <<1440, -2880, 0, 960>> :> <<10007557, 3708066, 1048576>> @@
     <<1440, -2880, 0, 1920>> :> <<10007557, 3708066, 1048576>> @@
     <<1440, -2880, 0, 2880>> :> <<10007557, 3708066, 1048576>> @@
     <<1440, -2880, 480, -2880>> :> <<6671704, 13656854, 12320768>> @@
     <<1440, -2880, 480, -1920>> :> <<6671704, 13656854, 12320768>> @@
     <<1440, -2880, 480, -960>> :> <<6671704, 13656854, 12320768>> @@
     <<1440, -2880, 480, 0>> :> <<6671704, 13656854, 12320768>>) @@
    (<<1440, -2880, 480, 960>> :> <<6671704, 13656854, 12320768>> @@
     <<1440, -2880, 480, 1920>> :> <<6671704, 13656854, 12320768>> @@
     <<1440, -2880, 480, 2880>> :> <<6671704, 13656854, 12320768>> @@
     <<1440, -2880, 960, -2880>> :> <<3335852, 6828427, 6160384>> @@
     <<1440, -2880, 960, -1920>> :> <<3335852, 6828427, 6160384>> @@
     <<1440, -2880, 960, -960>> :> <<3335852, 6828427, 6422528>> @@
     <<1440, -2880, 960, 0>> :> <<3335852, 6828427, 6422528>> @@
     <<1440, -2880, 960, 960>> :> <<3335852, 6828427, 6422528>> @@
     <<1440, -2880, 960, 1920>> :> <<3335852, 6828427, 6160384>> @@
     <<1440, -2880, 960, 2880>> :> <<3335852, 6828427, 6160384>> @@
     <<1440, -2880, 1440, -2880>> :> <<0, 0, 0>> @@
     <<1440, -2880, 1440, -1920>> :> <<0, 0, 109806, 11798826, 1818624>> @@
     <<1440, -2880, 1440, -960>> :> <<0, 0, 190190, 13238336, 7233536>> @@
     <<1440, -2880, 1440, 0>> :> <<0, 0, 219613, 6820436, 3637248>> @@
     <<1440, -2880, 1440, 960>> :> <<0, 0, 190190, 13238336, 7233536>> @@
     <<1440, -2880, 1440, 1920>> :> <<0, 0, 109806, 11798826, 1835008>> @@
     <<1440, -2880, 1440, 2880>> :> <<0, 0, 0, 0, 7570, 3980894, 2176768>> @@
     <<1440, -2880, 0, 480>> :> <<10007557, 3708066, 1048576>> @@
     <<1440, -2880, 160, 800>> :> <<8895606, 7024328, 15728640>> @@
     <<1440, -2880, 8, 0>> :> <<9951959, 11423626, 7340032>>) @@
    (<<1440, -2880, 0, 720>> :> <<10007557, 3708066, 1048576>> @@
     <<1440, -2880, 168, 804>> :> <<8840008, 14739889, 5242880>> @@
     <<1440, -2880, 720, 1440>> :> <<5003778, 10242641, 1048576>> @@
     <<1440, -2880, -480, -2400>> :> <<13343409, 10536493, 7340032>> @@
     <<1440, -2880, 0, 240>> :> <<10007557, 3708066, 1048576>> @@
     <<1440, -2880, 480, 480>> :> <<6671704, 13656854, 12320768>> @@
     <<1440, -2880, -960, 2160>> :> <<16679262, 587704, 12058624>> @@
     <<1440, -2880, 160, 960>> :> <<8895606, 7024328, 15728640>> @@
     <<1440, -2880, 16, 0>> :> <<9896362, 2361970, 12582912>> @@
     <<1440, -2880, 0, 16>> :> <<10007557, 3708066, 1048576>> @@
     <<1440, -2880, 0, 32>> :> <<10007557, 3708066, 1048576>> @@
     <<1440, -2880, 16, 16>> :> <<9896362, 2361970, 12582912>> @@
     <<1440, -2880, 0, 160>> :> <<10007557, 3708066, 1048576>> @@
     <<1440, -2880, 160, 0>> :> <<8895606, 7024328, 15728640>> @@
     <<1440, -2880, 160, 160>> :> <<8895606, 7024328, 15728640>> @@
     <<1440, -2880, 720, 720>> :> <<5003778, 10242641, 1048576>> @@
     <<1440, -2880, -720, -1440>> :> <<15011335, 13950707, 2097152>> @@
     <<1440, -2880, 720, -1440>> :> <<5003778, 10242641, 1048576>> @@
     <<1440, -2880, -160, -960>> :> <<11119508, 391803, 3145728>> @@
     <<1440, -2880, 0, 1440>> :> <<10007557, 3708066, 1048576>>) @@
    (<<1440, -2880, 0, -1440>> :> <<10007557, 3708066, 1048576>> @@
     <<1440, -2880, 1, 1>> :> <<10000607, 8866815, 2097152>> @@
     <<1440, -1920, -1440, -2880>> :> <<20015114, 7416132, 3145728>> @@
     <<1440, -1920, -1440, -1920>> :> <<20015114, 7416132, 3145728>> @@
     <<1440, -1920, -1440, -960>> :> <<20015114, 7416132, 3145728>> @@
     <<1440, -1920, -1440, 0>> :> <<20015114, 7416132, 3145728>> @@
     <<1440, -1920, -1440, 960>> :> <<20015114, 7416132, 3145728>> @@
     <<1440, -1920, -1440, 1920>> :> <<20015114, 7416132, 3145728>> @@
     <<1440, -1920, -1440, 2880>> :> <<20015114, 7416132, 3145728>> @@
     <<1440, -1920, -960, -2880>> :> <<16679262, 587704, 12058624>> @@
     <<1440, -1920, -960, -1920>> :> <<16679262, 587704, 12058624>> @@
     <<1440, -1920, -960, -960>> :> <<16679262, 587704, 12058624>> @@
     <<1440, -1920, -960, 0>> :> <<16679262, 587704, 12058624>> @@
     <<1440, -1920, -960, 960>> :> <<16679262, 587704, 12058624>> @@
     <<1440, -1920, -960, 1920>> :> <<16679262, 587704, 12058624>> @@
     <<1440, -1920, -960, 2880>> :> <<16679262, 587704, 12058624>> @@
     <<1440, -1920, -480, -2880>> :> <<13343409, 10536493, 7340032>> @@
     <<1440, -1920, -480, -1920>> :> <<13343409, 10536493, 7340032>> @@
     <<1440, -1920, -480, -960>> :> <<13343409, 10536493, 7340032>> @@
     <<1440, -1920, -480, 0>> :> <<13343409, 10536493, 7340032>>) @@
    (<<1440, -1920, -480, 960>> :> <<13343409, 10536493, 7340032>> @@
     <<1440, -1920, -480, 1920>> :> <<13343409, 10536493, 7340032>> @@
     <<1440, -1920, -480, 2880>> :> <<13343409, 10536493, 7340032>> @@
     <<1440, -1920, 0, -2880>> :> <<10007557, 3708066, 1048576>> @@
     <<1440, -1920, 0, -1920>> :> <<10007557, 3708066, 1048576>> @@
     <<1440, -1920, 0, -960>> :> <<10007557, 3708066, 1048576>> @@
     <<1440, -1920, 0, 0>> :> <<10007557, 3708066, 1048576>> @@
     <<1440, -1920, 0, 960>> :> <<10007557, 3708066, 1048576>> @@
     <<1440, -1920, 0, 1920>> :> <<10007557, 3708066, 1048576>> @@
     <<1440, -1920, 0, 2880>> :> <<10007557, 3708066, 1048576>> @@
     <<1440, -1920, 480, -2880>> :> <<6671704, 13656854, 12320768>> @@
     <<1440, -1920, 480, -1920>> :> <<6671704, 13656854, 12320768>> @@
     <<1440, -1920, 480, -960>> :> <<6671704, 13656854, 12320768>> @@
     <<1440, -1920, 480, 0>> :> <<6671704, 13656854, 12320768>> @@
     <<1440, -1920, 480, 960>> :> <<6671704, 13656854, 12320768>> @@
     <<1440, -1920, 480, 1920>> :> <<6671704, 13656854, 12320768>> @@
     <<1440, -1920, 480, 2880>> :> <<6671704, 13656854, 12320768>> @@
     <<1440, -1920, 960, -2880>> :> <<3335852, 6828427, 6160384>> @@
     <<1440, -1920, 960, -1920>> :> <<3335852, 6828427, 6160384>> @@
     <<1440, -1920, 960, -960>> :> <<3335852, 6828427, 6160384>>) @@
    (<<1440, -1920, 960, 0>> :> <<3335852, 6828427, 6422528>> @@
     <<1440, -1920, 960, 960>> :> <<3335852, 6828427, 6422528>> @@
     <<1440, -1920, 960, 1920>> :> <<3335852, 6828427, 6422528>> @@
     <<1440, -1920, 960, 2880>> :> <<3335852, 6828427, 6160384>> @@
     <<1440, -1920, 1440, -2880>> :> <<0, 0, 109806, 11798826, 1818624>> @@
     <<1440, -1920, 1440, -1920>> :> <<0, 0, 0>> @@
     <<1440, -1920, 1440, -960>> :> <<0, 0, 109806, 11798826, 1810432>> @@
     <<1440, -1920, 1440, 0>> :> <<0, 0, 190190, 13238336, 7225344>> @@
     <<1440, -1920, 1440, 960>> :> <<0, 0, 219613, 6820436, 3637248>> @@
     <<1440, -1920, 1440, 1920>> :> <<0, 0, 190190, 13238336, 7233536>> @@
     <<1440, -1920, 1440, 2880>> :> <<0, 0, 109806, 11798826, 1835008>> @@
     <<1440, -1920, 0, 480>> :> <<10007557, 3708066, 1048576>> @@
     <<1440, -1920, 160, 800>> :> <<8895606, 7024328, 15728640>> @@
     <<1440, -1920, 8, 0>> :> <<9951959, 11423626, 7340032>> @@
     <<1440, -1920, 0, 720>> :> <<10007557, 3708066, 1048576>> @@
     <<1440, -1920, 168, 804>> :> <<8840008, 14739889, 5242880>> @@
     <<1440, -1920, 720, 1440>> :> <<5003778, 10242641, 1048576>> @@
     <<1440, -1920, -480, -2400>> :> <<13343409, 10536493, 7340032>> @@
     <<1440, -1920, 0, 240>> :> <<10007557, 3708066, 1048576>> @@
     <<1440, -1920, 480, 480>> :> <<6671704, 13656854, 12320768>>) @@
    (<<1440, -1920, -960, 2160>> :> <<16679262, 587704, 12058624>> @@
     <<1440, -1920, 160, 960>> :> <<8895606, 7024328, 15728640>> @@
     <<1440, -1920, 16, 0>> :> <<9896362, 2361970, 12582912>> @@
     <<1440, -1920, 0, 16>> :> <<10007557, 3708066, 1048576>> @@
     <<1440, -1920, 0, 32>> :> <<10007557, 3708066, 1048576>> @@
     <<1440, -1920, 16, 16>> :> <<9896362, 2361970, 12582912>> @@
     <<1440, -1920, 0, 160>> :> <<10007557, 3708066, 1048576>> @@
     <<1440, -1920, 160, 0>> :> <<8895606, 7024328, 15728640>> @@
     <<1440, -1920, 160, 160>> :> <<8895606, 7024328, 15728640>> @@
     <<1440, -1920, 720, 720>> :> <<5003778, 10242641, 1048576>> @@
     <<1440, -1920, -720, -1440>> :> <<15011335, 13950707, 2097152>> @@
     <<1440, -1920, 720, -1440>> :> <<5003778, 10242641, 786432>> @@
     <<1440, -1920, -160, -960>> :> <<11119508, 391803, 3145728>> @@
     <<1440, -1920, 0, 1440>> :> <<10007557, 3708066, 1048576>> @@
     <<1440, -1920, 0, -1440>> :> <<10007557, 3708066, 1048576>> @@
     <<1440, -1920, 1, 1>> :> <<10000607, 8866815, 2097152>> @@
     <<1440, -960, -1440, -2880>> :> <<20015114, 7416132, 3145728>> @@
     <<1440, -960, -1440, -1920>> :> <<20015114, 7416132, 3145728>> @@
     <<1440, -960, -1440, -960>> :> <<20015114, 7416132, 3145728>> @@
     <<1440, -960, -1440, 0>> :> <<20015114, 7416132, 3145728>>) @@
    (<<1440, -960, -1440, 960>> :> <<20015114, 7416132, 3145728>> @@
     <<1440, -960, -1440, 1920>> :> <<20015114, 7416132, 3145728>> @@
     <<1440, -960, -1440, 2880>> :> <<20015114, 7416132, 3145728>> @@
     <<1440, -960, -960, -2880>> :> <<16679262, 587704, 12058624>> @@
     <<1440, -960, -960, -1920>> :> <<16679262, 587704, 12058624>> @@
     <<1440, -960, -960, -960>> :> <<16679262, 587704, 12058624>> @@
     <<1440, -960, -960, 0>> :> <<16679262, 587704, 12058624>> @@
     <<1440, -960, -960, 960>> :> <<16679262, 587704, 12058624>> @@
     <<1440, -960, -960, 1920>> :> <<16679262, 587704, 12058624>> @@
     <<1440, -960, -960, 2880>> :> <<16679262, 587704, 12058624>> @@
     <<1440, -960, -480, -2880>> :> <<13343409, 10536493, 7340032>> @@
     <<1440, -960, -480, -1920>> :> <<13343409, 10536493, 7340032>> @@
     <<1440, -960, -480, -960>> :> <<13343409, 10536493, 7340032>> @@
     <<1440, -960, -480, 0>> :> <<13343409, 10536493, 7340032>> @@
     <<1440, -960, -480, 960>> :> <<13343409, 10536493, 7340032>> @@
     <<1440, -960, -480, 1920>> :> <<13343409, 10536493, 7340032>> @@
     <<1440, -960, -480, 2880>> :> <<13343409, 10536493, 7340032>> @@
     <<1440, -960, 0, -2880>> :> <<10007557, 3708066, 1048576>> @@
     <<1440, -960, 0, -1920>> :> <<10007557, 3708066, 1048576>> @@
     <<1440, -960, 0, -960>> :> <<10007557, 3708066, 1048576>>) @@
    (<<1440, -960, 0, 0>> :> <<10007557, 3708066, 1048576>> @@
     <<1440, -960, 0, 960>> :> <<10007557, 3708066, 1048576>> @@
     <<1440, -960, 0, 1920>> :> <<10007557, 3708066, 1048576>> @@
     <<1440, -960, 0, 2880>> :> <<10007557, 3708066, 1048576>> @@
     <<1440, -960, 480, -2880>> :> <<6671704, 13656854, 12320768>> @@
     <<1440, -960, 480, -1920>> :> <<6671704, 13656854, 12320768>> @@
     <<1440, -960, 480, -960>> :> <<6671704, 13656854, 12320768>> @@
     <<1440, -960, 480, 0>> :> <<6671704, 13656854, 12320768>> @@
     <<1440, -960, 480, 960>> :> <<6671704, 13656854, 12320768>> @@
     <<1440, -960, 480, 1920>> :> <<6671704, 13656854, 12320768>> @@
     <<1440, -960, 480, 2880>> :> <<6671704, 13656854, 12320768>> @@
     <<1440, -960, 960, -2880>> :> <<3335852, 6828427, 6422528>> @@
     <<1440, -960, 960, -1920>> :> <<3335852, 6828427, 6160384>> @@
     <<1440, -960, 960, -960>> :> <<3335852, 6828427, 6160384>> @@
     <<1440, -960, 960, 0>> :> <<3335852, 6828427, 6160384>> @@
     <<1440, -960, 960, 960>> :> <<3335852, 6828427, 6422528>> @@
     <<1440, -960, 960, 1920>> :> <<3335852, 6828427, 6422528>> @@
     <<1440, -960, 960, 2880>> :> <<3335852, 6828427, 6422528>> @@
     <<1440, -960, 1440, -2880>> :> <<0, 0, 190190, 13238336, 7233536>> @@
     <<1440, -960, 1440, -1920>> :> <<0, 0, 109806, 11798826, 1810432>>) @@
    (<<1440, -960, 1440, -960>> :> <<0, 0, 0>> @@
     <<1440, -960, 1440, 0>> :> <<0, 0, 109806, 11798826, 1810432>> @@
     <<1440, -960, 1440, 960>> :> <<0, 0, 190190, 13238336, 7225344>> @@
     <<1440, -960, 1440, 1920>> :> <<0, 0, 219613, 6820436, 3637248>> @@
     <<1440, -960, 1440, 2880>> :> <<0, 0, 190190, 13238336, 7233536>> @@
     <<1440, -960, 0, 480>> :> <<10007557, 3708066, 1048576>> @@
     <<1440, -960, 160, 800>> :> <<8895606, 7024328, 15728640>> @@
     <<1440, -960, 8, 0>> :> <<9951959, 11423626, 7340032>> @@
     <<1440, -960, 0, 720>> :> <<10007557, 3708066, 1048576>> @@
     <<1440, -960, 168, 804>> :> <<8840008, 14739889, 5242880>> @@
     <<1440, -960, 720, 1440>> :> <<5003778, 10242641, 1048576>> @@
     <<1440, -960, -480, -2400>> :> <<13343409, 10536493, 7340032>> @@
     <<1440, -960, 0, 240>> :> <<10007557, 3708066, 1048576>> @@
     <<1440, -960, 480, 480>> :> <<6671704, 13656854, 12320768>> @@
     <<1440, -960, -960, 2160>> :> <<16679262, 587704, 12058624>> @@
     <<1440, -960, 160, 960>> :> <<8895606, 7024328, 15728640>> @@
     <<1440, -960, 16, 0>> :> <<9896362, 2361970, 12582912>> @@
     <<1440, -960, 0, 16>> :> <<10007557, 3708066, 1048576>> @@
     <<1440, -960, 0, 32>> :> <<10007557, 3708066, 1048576>> @@
     <<1440, -960, 16, 16>> :> <<9896362, 2361970, 12582912>>) @@
    (<<1440, -960, 0, 160>> :> <<10007557, 3708066, 1048576>> @@
     <<1440, -960, 160, 0>> :> <<8895606, 7024328, 15728640>> @@
     <<1440, -960, 160, 160>> :> <<8895606, 7024328, 15728640>> @@
     <<1440, -960, 720, 720>> :> <<5003778, 10242641, 1048576>> @@
     <<1440, -960, -720, -1440>> :> <<15011335, 13950707, 2097152>> @@
     <<1440, -960, 720, -1440>> :> <<5003778, 10242641, 786432>> @@
     <<1440, -960, -160, -960>> :> <<11119508, 391803, 3145728>> @@
     <<1440, -960, 0, 1440>> :> <<10007557, 3708066, 1048576>> @@
     <<1440, -960, 0, -1440>> :> <<10007557, 3708066, 1048576>> @@
     <<1440, -960, 1, 1>> :> <<10000607, 8866815, 2097152>> @@
     <<1440, 0, -1440, -2880>> :> <<20015114, 7416132, 3145728>> @@
     <<1440, 0, -1440, -1920>> :> <<20015114, 7416132, 3145728>> @@
     <<1440, 0, -1440, -960>> :> <<20015114, 7416132, 3145728>> @@
     <<1440, 0, -1440, 0>> :> <<20015114, 7416132, 3145728>> @@
     <<1440, 0, -1440, 960>> :> <<20015114, 7416132, 3145728>> @@
     <<1440, 0, -1440, 1920>> :> <<20015114, 7416132, 3145728>> @@
     <<1440, 0, -1440, 2880>> :> <<20015114, 7416132, 3145728>> @@
     <<1440, 0, -960, -2880>> :> <<16679262, 587704, 12058624>> @@
     <<1440, 0, -960, -1920>> :> <<16679262, 587704, 12058624>> @@
     <<1440, 0, -960, -960>> :> <<16679262, 587704, 12058624>>) @@
    (<<1440, 0, -960, 0>> :> <<16679262, 587704, 12058624>> @@
     <<1440, 0, -960, 960>> :> <<16679262, 587704, 12058624>> @@
     <<1440, 0, -960, 1920>> :> <<16679262, 587704, 12058624>> @@
     <<1440, 0, -960, 2880>> :> <<16679262, 587704, 12058624>> @@
     <<1440, 0, -480, -2880>> :> <<13343409, 10536493, 7340032>> @@
     <<1440, 0, -480, -1920>> :> <<13343409, 10536493, 7340032>> @@
     <<1440, 0, -480, -960>> :> <<13343409, 10536493, 7340032>> @@
     <<1440, 0, -480, 0>> :> <<13343409, 10536493, 7340032>> @@
     <<1440, 0, -480, 960>> :> <<13343409, 10536493, 7340032>> @@
     <<1440, 0, -480, 1920>> :> <<13343409, 10536493, 7340032>> @@
     <<1440, 0, -480, 2880>> :> <<13343409, 10536493, 7340032>> @@
     <<1440, 0, 0, -2880>> :> <<10007557, 3708066, 1048576>> @@
     <<1440, 0, 0, -1920>> :> <<10007557, 3708066, 1048576>> @@
     <<1440, 0, 0, -960>> :> <<10007557, 3708066, 1048576>> @@
     <<1440, 0, 0, 0>> :> <<10007557, 3708066, 1048576>> @@
     <<1440, 0, 0, 960>> :> <<10007557, 3708066, 1048576>> @@
     <<1440, 0, 0, 1920>> :> <<10007557, 3708066, 1048576>> @@
     <<1440, 0, 0, 2880>> :> <<10007557, 3708066, 1048576>> @@
     <<1440, 0, 480, -2880>> :> <<6671704, 13656854, 12320768>> @@
     <<1440, 0, 480, -1920>> :> <<6671704, 13656854, 12320768>>) @@
    (<<1440, 0, 480, -960>> :> <<6671704, 13656854, 12320768>> @@
     <<1440, 0, 480, 0>> :> <<6671704, 13656854, 12320768>> @@
     <<1440, 0, 480, 960>> :> <<6671704, 13656854, 12320768>> @@
     <<1440, 0, 480, 1920>> :> <<6671704, 13656854, 12320768>> @@
     <<1440, 0, 480, 2880>> :> <<6671704, 13656854, 12320768>> @@
     <<1440, 0, 960, -2880>> :> <<3335852, 6828427, 6422528>> @@
     <<1440, 0, 960, -1920>> :> <<3335852, 6828427, 6422528>> @@
     <<1440, 0, 960, -960>> :> <<3335852, 6828427, 6160384>> @@
     <<1440, 0, 960, 0>> :> <<3335852, 6828427, 6160384>> @@
     <<1440, 0, 960, 960>> :> <<3335852, 6828427, 6160384>> @@
     <<1440, 0, 960, 1920>> :> <<3335852, 6828427, 6422528>> @@
     <<1440, 0, 960, 2880>> :> <<3335852, 6828427, 6422528>> @@
     <<1440, 0, 1440, -2880>> :> <<0, 0, 219613, 6820436, 3637248>> @@
     <<1440, 0, 1440, -1920>> :> <<0, 0, 190190, 13238336, 7225344>> @@
     <<1440, 0, 1440, -960>> :> <<0, 0, 109806, 11798826, 1810432>> @@
     <<1440, 0, 1440, 0>> :> <<0, 0, 0>> @@
     <<1440, 0, 1440, 960>> :> <<0, 0, 109806, 11798826, 1810432>> @@
     <<1440, 0, 1440, 1920>> :> <<0, 0, 190190, 13238336, 7225344>> @@
     <<1440, 0, 1440, 2880>> :> <<0, 0, 219613, 6820436, 3637248>> @@
     <<1440, 0, 0, 480>> :> <<10007557, 3708066, 1048576>>) @@
    (<<1440, 0, 160, 800>> :> <<8895606, 7024328, 15728640>> @@
     <<1440, 0, 8, 0>> :> <<9951959, 11423626, 7340032>> @@
     <<1440, 0, 0, 720>> :> <<10007557, 3708066, 1048576>> @@
     <<1440, 0, 168, 804>> :> <<8840008, 14739889, 5242880>> @@
     <<1440, 0, 720, 1440>> :> <<5003778, 10242641, 1048576>> @@
     <<1440, 0, -480, -2400>> :> <<13343409, 10536493, 7340032>> @@
     <<1440, 0, 0, 240>> :> <<10007557, 3708066, 1048576>> @@
     <<1440, 0, 480, 480>> :> <<6671704, 13656854, 12320768>> @@
     <<1440, 0, -960, 2160>> :> <<16679262, 587704, 12058624>> @@
     <<1440, 0, 160, 960>> :> <<8895606, 7024328, 15728640>> @@
     <<1440, 0, 16, 0>> :> <<9896362, 2361970, 12582912>> @@
     <<1440, 0, 0, 16>> :> <<10007557, 3708066, 1048576>> @@
     <<1440, 0, 0, 32>> :> <<10007557, 3708066, 1048576>> @@
     <<1440, 0, 16, 16>> :> <<9896362, 2361970, 12582912>> @@
     <<1440, 0, 0, 160>> :> <<10007557, 3708066, 1048576>> @@
     <<1440, 0, 160, 0>> :> <<8895606, 7024328, 15728640>> @@
     <<1440, 0, 160, 160>> :> <<8895606, 7024328, 15728640>> @@
     <<1440, 0, 720, 720>> :> <<5003778, 10242641, 786432>> @@
     <<1440, 0, -720, -1440>> :> <<15011335, 13950707, 2097152>> @@
     <<1440, 0, 720, -1440>> :> <<5003778, 10242641, 1048576>>) @@
    (<<1440, 0, -160, -960>> :> <<11119508, 391803, 3145728>> @@
     <<1440, 0, 0, 1440>> :> <<10007557, 3708066, 1048576>> @@
     <<1440, 0, 0, -1440>> :> <<10007557, 3708066, 1048576>> @@
     <<1440, 0, 1, 1>> :> <<10000607, 8866815, 2097152>> @@
     <<1440, 960, -1440, -2880>> :> <<20015114, 7416132, 3145728>> @@
     <<1440, 960, -1440, -1920>> :> <<20015114, 7416132, 3145728>> @@
     <<1440, 960, -1440, -960>> :> <<20015114, 7416132, 3145728>> @@
     <<1440, 960, -1440, 0>> :> <<20015114, 7416132, 3145728>> @@
     <<1440, 960, -1440, 960>> :> <<20015114, 7416132, 3145728>> @@
     <<1440, 960, -1440, 1920>> :> <<20015114, 7416132, 3145728>> @@
     <<1440, 960, -1440, 2880>> :> <<20015114, 7416132, 3145728>> @@
     <<1440, 960, -960, -2880>> :> <<16679262, 587704, 12058624>> @@
     <<1440, 960, -960, -1920>> :> <<16679262, 587704, 12058624>> @@
     <<1440, 960, -960, -960>> :> <<16679262, 587704, 12058624>> @@
     <<1440, 960, -960, 0>> :> <<16679262, 587704, 12058624>> @@
     <<1440, 960, -960, 960>> :> <<16679262, 587704, 12058624>> @@
     <<1440, 960, -960, 1920>> :> <<16679262, 587704, 12058624>> @@
     <<1440, 960, -960, 2880>> :> <<16679262, 587704, 12058624>> @@
     <<1440, 960, -480, -2880>> :> <<13343409, 10536493, 7340032>> @@
     <<1440, 960, -480, -1920>> :> <<13343409, 10536493, 7340032>>) @@
    (<<1440, 960, -480, -960>> :> <<13343409, 10536493, 7340032>> @@
     <<1440, 960, -480, 0>> :> <<13343409, 10536493, 7340032>> @@
     <<1440, 960, -480, 960>> :> <<13343409, 10536493, 7340032>> @@
     <<1440, 960, -480, 1920>> :> <<13343409, 10536493, 7340032>> @@
     <<1440, 960, -480, 2880>> :> <<13343409, 10536493, 7340032>> @@
     <<1440, 960, 0, -2880>> :> <<10007557, 3708066, 1048576>> @@
     <<1440, 960, 0, -1920>> :> <<10007557, 3708066, 1048576>> @@
     <<1440, 960, 0, -960>> :> <<10007557, 3708066, 1048576>> @@
     <<1440, 960, 0, 0>> :> <<10007557, 3708066, 1048576>> @@
     <<1440, 960, 0, 960>> :> <<10007557, 3708066, 1048576>> @@
     <<1440, 960, 0, 1920>> :> <<10007557, 3708066, 1048576>> @@
     <<1440, 960, 0, 2880>> :> <<10007557, 3708066, 1048576>> @@
     <<1440, 960, 480, -2880>> :> <<6671704, 13656854, 12320768>> @@
     <<1440, 960, 480, -1920>> :> <<6671704, 13656854, 12320768>> @@
     <<1440, 960, 480, -960>> :> <<6671704, 13656854, 12320768>> @@
     <<1440, 960, 480, 0>> :> <<6671704, 13656854, 12320768>> @@
     <<1440, 960, 480, 960>> :> <<6671704, 13656854, 12320768>> @@
     <<1440, 960, 480, 1920>> :> <<6671704, 13656854, 12320768>> @@
     <<1440, 960, 480, 2880>> :> <<6671704, 13656854, 12320768>> @@
     <<1440, 960, 960, -2880>> :> <<3335852, 6828427, 6422528>>) @@
    (<<1440, 960, 960, -1920>> :> <<3335852, 6828427, 6422528>> @@
     <<1440, 960, 960, -960>> :> <<3335852, 6828427, 6422528>> @@
     <<1440, 960, 960, 0>> :> <<3335852, 6828427, 6160384>> @@
     <<1440, 960, 960, 960>> :> <<3335852, 6828427, 6160384>> @@
     <<1440, 960, 960, 1920>> :> <<3335852, 6828427, 6160384>> @@
     <<1440, 960, 960, 2880>> :> <<3335852, 6828427, 6422528>> @@
     <<1440, 960, 1440, -2880>> :> <<0, 0, 190190, 13238336, 7233536>> @@
     <<1440, 960, 1440, -1920>> :> <<0, 0, 219613, 6820436, 3637248>> @@
     <<1440, 960, 1440, -960>> :> <<0, 0, 190190, 13238336, 7225344>> @@
     <<1440, 960, 1440, 0>> :> <<0, 0, 109806, 11798826, 1810432>> @@
     <<1440, 960, 1440, 960>> :> <<0, 0, 0>> @@
     <<1440, 960, 1440, 1920>> :> <<0, 0, 109806, 11798826, 1810432>> @@
     <<1440, 960, 1440, 2880>> :> <<0, 0, 190190, 13238336, 7233536>> @@
     <<1440, 960, 0, 480>> :> <<10007557, 3708066, 1048576>> @@
     <<1440, 960, 160, 800>> :> <<8895606, 7024328, 15728640>> @@
     <<1440, 960, 8, 0>> :> <<9951959, 11423626, 7340032>> @@
     <<1440, 960, 0, 720>> :> <<10007557, 3708066, 1048576>> @@
     <<1440, 960, 168, 804>> :> <<8840008, 14739889, 5242880>> @@
     <<1440, 960, 720, 1440>> :> <<5003778, 10242641, 786432>> @@
     <<1440, 960, -480, -2400>> :> <<13343409, 10536493, 7340032>>) @@
    (<<1440, 960, 0, 240>> :> <<10007557, 3708066, 1048576>> @@
     <<1440, 960, 480, 480>> :> <<6671704, 13656854, 12320768>> @@
     <<1440, 960, -960, 2160>> :> <<16679262, 587704, 12058624>> @@
     <<1440, 960, 160, 960>> :> <<8895606, 7024328, 15728640>> @@
     <<1440, 960, 16, 0>> :> <<9896362, 2361970, 12582912>> @@
     <<1440, 960, 0, 16>> :> <<10007557, 3708066, 1048576>> @@
     <<1440, 960, 0, 32>> :> <<10007557, 3708066, 1048576>> @@
     <<1440, 960, 16, 16>> :> <<9896362, 2361970, 12582912>> @@
     <<1440, 960, 0, 160>> :> <<10007557, 3708066, 1048576>> @@
     <<1440, 960, 160, 0>> :> <<8895606, 7024328, 15728640>> @@
     <<1440, 960, 160, 160>> :> <<8895606, 7024328, 15728640>> @@
     <<1440, 960, 720, 720>> :> <<5003778, 10242641, 786432>> @@
     <<1440, 960, -720, -1440>> :> <<15011335, 13950707, 2097152>> @@
     <<1440, 960, 720, -1440>> :> <<5003778, 10242641, 1048576>> @@
     <<1440, 960, -160, -960>> :> <<11119508, 391803, 3145728>> @@
     <<1440, 960, 0, 1440>> :> <<10007557, 3708066, 1048576>> @@
     <<1440, 960, 0, -1440>> :> <<10007557, 3708066, 1048576>> @@
     <<1440, 960, 1, 1>> :> <<10000607, 8866815, 2097152>> @@
     <<1440, 1920, -1440, -2880>> :> <<20015114, 7416132, 3145728>> @@
     <<1440, 1920, -1440, -1920>> :> <<20015114, 7416132, 3145728>>) @@
    (<<1440, 1920, -1440, -960>> :> <<20015114, 7416132, 3145728>> @@
     <<1440, 1920, -1440, 0>> :> <<20015114, 7416132, 3145728>> @@
     <<1440, 1920, -1440, 960>> :> <<20015114, 7416132, 3145728>> @@
     <<1440, 1920, -1440, 1920>> :> <<20015114, 7416132, 3145728>> @@
     <<1440, 1920, -1440, 2880>> :> <<20015114, 7416132, 3145728>> @@
     <<1440, 1920, -960, -2880>> :> <<16679262, 587704, 12058624>> @@
     <<1440, 1920, -960, -1920>> :> <<16679262, 587704, 12058624>> @@
     <<1440, 1920, -960, -960>> :> <<16679262, 587704, 12058624>> @@
     <<1440, 1920, -960, 0>> :> <<16679262, 587704, 12058624>> @@
     <<1440, 1920, -960, 960>> :> <<16679262, 587704, 12058624>> @@
     <<1440, 1920, -960, 1920>> :> <<16679262, 587704, 12058624>> @@
     <<1440, 1920, -960, 2880>> :> <<16679262, 587704, 12058624>> @@
     <<1440, 1920, -480, -2880>> :> <<13343409, 10536493, 7340032>> @@
     <<1440, 1920, -480, -1920>> :> <<13343409, 10536493, 7340032>> @@
     <<1440, 1920, -480, -960>> :> <<13343409, 10536493, 7340032>> @@
     <<1440, 1920, -480, 0>> :> <<13343409, 10536493, 7340032>> @@
     <<1440, 1920, -480, 960>> :> <<13343409, 10536493, 7340032>> @@
     <<1440, 1920, -480, 1920>> :> <<13343409, 10536493, 7340032>> @@
     <<1440, 1920, -480, 2880>> :> <<13343409, 10536493, 7340032>> @@
     <<1440, 1920, 0, -2880>> :> <<10007557, 3708066, 1048576>>) @@
    (<<1440, 1920, 0, -1920>> :> <<10007557, 3708066, 1048576>> @@
     <<1440, 1920, 0, -960>> :> <<10007557, 3708066, 1048576>> @@
     <<1440, 1920, 0, 0>> :> <<10007557, 3708066, 1048576>> @@
     <<1440, 1920, 0, 960>> :> <<10007557, 3708066, 1048576>> @@
     <<1440, 1920, 0, 1920>> :> <<10007557, 3708066, 1048576>> @@
     <<1440, 1920, 0, 2880>> :> <<10007557, 3708066, 1048576>> @@
     <<1440, 1920, 480, -2880>> :> <<6671704, 13656854, 12320768>> @@
     <<1440, 1920, 480, -1920>> :> <<6671704, 13656854, 12320768>> @@
     <<1440, 1920, 480, -960>> :> <<6671704, 13656854, 12320768>> @@
     <<1440, 1920, 480, 0>> :> <<6671704, 13656854, 12320768>> @@
     <<1440, 1920, 480, 960>> :> <<6671704, 13656854, 12320768>> @@
     <<1440, 1920, 480, 1920>> :> <<6671704, 13656854, 12320768>> @@
     <<1440, 1920, 480, 2880>> :> <<6671704, 13656854, 12320768>> @@
     <<1440, 1920, 960, -2880>> :> <<3335852, 6828427, 6160384>> @@
     <<1440, 1920, 960, -1920>> :> <<3335852, 6828427, 6422528>> @@
     <<1440, 1920, 960, -960>> :> <<3335852, 6828427, 6422528>> @@
     <<1440, 1920, 960, 0>> :> <<3335852, 6828427, 6422528>> @@
     <<1440, 1920, 960, 960>> :> <<3335852, 6828427, 6160384>> @@
     <<1440, 1920, 960, 1920>> :> <<3335852, 6828427, 6160384>> @@
     <<1440, 1920, 960, 2880>> :> <<3335852, 6828427, 6160384>>) @@
    (<<1440, 1920, 1440, -2880>> :> <<0, 0, 109806, 11798826, 1835008>> @@
     <<1440, 1920, 1440, -1920>> :> <<0, 0, 190190, 13238336, 7233536>> @@
     <<1440, 1920, 1440, -960>> :> <<0, 0, 219613, 6820436, 3637248>> @@
     <<1440, 1920, 1440, 0>> :> <<0, 0, 190190, 13238336, 7225344>> @@
     <<1440, 1920, 1440, 960>> :> <<0, 0, 109806, 11798826, 1810432>> @@
     <<1440, 1920, 1440, 1920>> :> <<0, 0, 0>> @@
     <<1440, 1920, 1440, 2880>> :> <<0, 0, 109806, 11798826, 1818624>> @@
     <<1440, 1920, 0, 480>> :> <<10007557, 3708066, 1048576>> @@
     <<1440, 1920, 160, 800>> :> <<8895606, 7024328, 15728640>> @@
     <<1440, 1920, 8, 0>> :> <<9951959, 11423626, 7340032>> @@
     <<1440, 1920, 0, 720>> :> <<10007557, 3708066, 1048576>> @@
     <<1440, 1920, 168, 804>> :> <<8840008, 14739889, 5242880>> @@
     <<1440, 1920, 720, 1440>> :> <<5003778, 10242641, 786432>> @@
     <<1440, 1920, -480, -2400>> :> <<13343409, 10536493, 7340032>> @@
     <<1440, 1920, 0, 240>> :> <<10007557, 3708066, 1048576>> @@
     <<1440, 1920, 480, 480>> :> <<6671704, 13656854, 12320768>> @@
     <<1440, 1920, -960, 2160>> :> <<16679262, 587704, 12058624>> @@
     <<1440, 1920, 160, 960>> :> <<8895606, 7024328, 15728640>> @@
     <<1440, 1920, 16, 0>> :> <<9896362, 2361970, 12582912>> @@
     <<1440, 1920, 0, 16>> :> <<10007557, 3708066, 1048576>>) @@
    (<<1440, 1920, 0, 32>> :> <<10007557, 3708066, 1048576>> @@
     <<1440, 1920, 16, 16>> :> <<9896362, 2361970, 12582912>> @@
     <<1440, 1920, 0, 160>> :> <<10007557, 3708066, 1048576>> @@
     <<1440, 1920, 160, 0>> :> <<8895606, 7024328, 15728640>> @@
     <<1440, 1920, 160, 160>> :> <<8895606, 7024328, 15728640>> @@
     <<1440, 1920, 720, 720>> :> <<5003778, 10242641, 1048576>> @@
     <<1440, 1920, -720, -1440>> :> <<15011335, 13950707, 2097152>> @@
     <<1440, 1920, 720, -1440>> :> <<5003778, 10242641, 1048576>> @@
     <<1440, 1920, -160, -960>> :> <<11119508, 391803, 3670016>> @@
     <<1440, 1920, 0, 1440>> :> <<10007557, 3708066, 1048576>> @@
     <<1440, 1920, 0, -1440>> :> <<10007557, 3708066, 1048576>> @@
     <<1440, 1920, 1, 1>> :> <<10000607, 8866815, 2097152>> @@
     <<1440, 2880, -1440, -2880>> :> <<20015114, 7416132, 3145728>> @@
     <<1440, 2880, -1440, -1920>> :> <<20015114, 7416132, 3145728>> @@
     <<1440, 2880, -1440, -960>> :> <<20015114, 7416132, 3145728>> @@
     <<1440, 2880, -1440, 0>> :> <<20015114, 7416132, 3145728>> @@
     <<1440, 2880, -1440, 960>> :> <<20015114, 7416132, 3145728>> @@
     <<1440, 2880, -1440, 1920>> :> <<20015114, 7416132, 3145728>> @@
     <<1440, 2880, -1440, 2880>> :> <<20015114, 7416132, 3145728>> @@
     <<1440, 2880, -960, -2880>> :> <<16679262, 587704, 12058624>>) @@
    (<<1440, 2880, -960, -1920>> :> <<16679262, 587704, 12058624>> @@
     <<1440, 2880, -960, -960>> :> <<16679262, 587704, 12058624>> @@
     <<1440, 2880, -960, 0>> :> <<16679262, 587704, 12058624>> @@
     <<1440, 2880, -960, 960>> :> <<16679262, 587704, 12058624>> @@
     <<1440, 2880, -960, 1920>> :> <<16679262, 587704, 12058624>> @@
     <<1440, 2880, -960, 2880>> :> <<16679262, 587704, 12058624>> @@
     <<1440, 2880, -480, -2880>> :> <<13343409, 10536493, 7340032>> @@
     <<1440, 2880, -480, -1920>> :> <<13343409, 10536493, 7340032>> @@
     <<1440, 2880, -480, -960>> :> <<13343409, 10536493, 7340032>> @@
     <<1440, 2880, -480, 0>> :> <<13343409, 10536493, 7340032>> @@
     <<1440, 2880, -480, 960>> :> <<13343409, 10536493, 7340032>> @@
     <<1440, 2880, -480, 1920>> :> <<13343409, 10536493, 7340032>> @@
     <<1440, 2880, -480, 2880>> :> <<13343409, 10536493, 7340032>> @@
     <<1440, 2880, 0, -2880>> :> <<10007557, 3708066, 1048576>> @@
     <<1440, 2880, 0, -1920>> :> <<10007557, 3708066, 1048576>> @@
     <<1440, 2880, 0, -960>> :> <<10007557, 3708066, 1048576>> @@
     <<1440, 2880, 0, 0>> :> <<10007557, 3708066, 1048576>> @@
     <<1440, 2880, 0, 960>> :> <<10007557, 3708066, 1048576>> @@
     <<1440, 2880, 0, 1920>> :> <<10007557, 3708066, 1048576>> @@
     <<1440, 2880, 0, 2880>> :> <<10007557, 3708066, 1048576>>) @@
    (<<1440, 2880, 480, -2880>> :> <<6671704, 13656854, 12320768>> @@
     <<1440, 2880, 480, -1920>> :> <<6671704, 13656854, 12320768>> @@
     <<1440, 2880, 480, -960>> :> <<6671704, 13656854, 12320768>> @@
     <<1440, 2880, 480, 0>> :> <<6671704, 13656854, 12320768>> @@
     <<1440, 2880, 480, 960>> :> <<6671704, 13656854, 12320768>> @@
     <<1440, 2880, 480, 1920>> :> <<6671704, 13656854, 12320768>> @@
     <<1440, 2880, 480, 2880>> :> <<6671704, 13656854, 12320768>> @@
     <<1440, 2880, 960, -2880>> :> <<3335852, 6828427, 6160384>> @@
     <<1440, 2880, 960, -1920>> :> <<3335852, 6828427, 6160384>> @@
     <<1440, 2880, 960, -960>> :> <<3335852, 6828427, 6422528>> @@
     <<1440, 2880, 960, 0>> :> <<3335852, 6828427, 6422528>> @@
     <<1440, 2880, 960, 960>> :> <<3335852, 6828427, 6422528>> @@
     <<1440, 2880, 960, 1920>> :> <<3335852, 6828427, 6160384>> @@
     <<1440, 2880, 960, 2880>> :> <<3335852, 6828427, 6160384>> @@
     <<1440, 2880, 1440, -2880>> :> <<0, 0, 0, 0, 7570, 3980894, 2176768>> @@
     <<1440, 2880, 1440, -1920>> :> <<0, 0, 109806, 11798826, 1835008>> @@
     <<1440, 2880, 1440, -960>> :> <<0, 0, 190190, 13238336, 7233536>> @@
     <<1440, 2880, 1440, 0>> :> <<0, 0, 219613, 6820436, 3637248>> @@
     <<1440, 2880, 1440, 960>> :> <<0, 0, 190190, 13238336, 7233536>> @@
     <<1440, 2880, 1440, 1920>> :> <<0, 0, 109806, 11798826, 1818624>>) @@
    (<<1440, 2880, 1440, 2880>> :> <<0, 0, 0>> @@
     <<1440, 2880, 0, 480>> :> <<10007557, 3708066, 1048576>> @@
     <<1440, 2880, 160, 800>> :> <<8895606, 7024328, 15728640>> @@
     <<1440, 2880, 8, 0>> :> <<9951959, 11423626, 7340032>> @@
     <<1440, 2880, 0, 720>> :> <<10007557, 3708066, 1048576>> @@
     <<1440, 2880, 168, 804>> :> <<8840008, 14739889, 5242880>> @@
     <<1440, 2880, 720, 1440>> :> <<5003778, 10242641, 1048576>> @@
     <<1440, 2880, -480, -2400>> :> <<13343409, 10536493, 7340032>> @@
     <<1440, 2880, 0, 240>> :> <<10007557, 3708066, 1048576>> @@
     <<1440, 2880, 480, 480>> :> <<6671704, 13656854, 12320768>> @@
     <<1440, 2880, -960, 2160>> :> <<16679262, 587704, 12058624>> @@
     <<1440, 2880, 160, 960>> :> <<8895606, 7024328, 15728640>> @@
     <<1440, 2880, 16, 0>> :> <<9896362, 2361970, 12582912>> @@
     <<1440, 2880, 0, 16>> :> <<10007557, 3708066, 1048576>> @@
     <<1440, 2880, 0, 32>> :> <<10007557, 3708066, 1048576>> @@
     <<1440, 2880, 16, 16>> :> <<9896362, 2361970, 12582912>> @@
     <<1440, 2880, 0, 160>> :> <<10007557, 3708066, 1048576>> @@
     <<1440, 2880, 160, 0>> :> <<8895606, 7024328, 15728640>> @@
     <<1440, 2880, 160, 160>> :> <<8895606, 7024328, 15728640>> @@
     <<1440, 2880, 720, 720>> :> <<5003778, 10242641, 1048576>>) @@
    (<<1440, 2880, -720, -1440>> :> <<15011335, 13950707, 2097152>> @@
     <<1440, 2880, 720, -1440>> :> <<5003778, 10242641, 1048576>> @@
     <<1440, 2880, -160, -960>> :> <<11119508, 391803, 3145728>> @@
     <<1440, 2880, 0, 1440>> :> <<10007557, 3708066, 1048576>> @@
     <<1440, 2880, 0, -1440>> :> <<10007557, 3708066, 1048576>> @@
     <<1440, 2880, 1, 1>> :> <<10000607, 8866815, 2097152>> @@
     <<0, 480, -1440, -2880>> :> <<10007557, 3708066, 1048576>> @@
     <<0, 480, -1440, -1920>> :> <<10007557, 3708066, 1048576>> @@
     <<0, 480, -1440, -960>> :> <<10007557, 3708066, 1048576>> @@
     <<0, 480, -1440, 0>> :> <<10007557, 3708066, 1048576>> @@
     <<0, 480, -1440, 960>> :> <<10007557, 3708066, 1048576>> @@
     <<0, 480, -1440, 1920>> :> <<10007557, 3708066, 1048576>> @@
     <<0, 480, -1440, 2880>> :> <<10007557, 3708066, 1048576>> @@
     <<0, 480, -960, -2880>> :> <<12860701, 6086392, 14680064>> @@
     <<0, 480, -960, -1920>> :> <<12860701, 6086392, 14155776>> @@
     <<0, 480, -960, -960>> :> <<10007557, 3708066, 1048576>> @@
     <<0, 480, -960, 0>> :> <<7154413, 1329739, 5505024>> @@
     <<0, 480, -960, 960>> :> <<7154413, 1329739, 5505024>> @@
     <<0, 480, -960, 1920>> :> <<10007557, 3708066, 1048576>> @@
     <<0, 480, -960, 2880>> :> <<12860701, 6086392, 14680064>>) @@
    (<<0, 480, -480, -2880>> :> <<15410568, 3173498, 15204352>> @@
     <<0, 480, -480, -1920>> :> <<15410568, 3173498, 14155776>> @@
     <<0, 480, -480, -960>> :> <<10007557, 3708066, 1048576>> @@
     <<0, 480, -480, 0>> :> <<4604546, 4242633, 5242880>> @@
     <<0, 480, -480, 960>> :> <<4604546, 4242633, 5242880>> @@
     <<0, 480, -480, 1920>> :> <<10007557, 3708066, 1048576>> @@
     <<0, 480, -480, 2880>> :> <<15410568, 3173498, 15204352>> @@
     <<0, 480, 0, -2880>> :> <<16679262, 587704, 13631488>> @@
     <<0, 480, 0, -1920>> :> <<16679262, 587704, 12058624>> @@
     <<0, 480, 0, -960>> :> <<10007557, 3708066, 1048576>> @@
     <<0, 480, 0, 0>> :> <<3335852, 6828427, 6029312>> @@
     <<0, 480, 0, 960>> :> <<3335852, 6828427, 6029312>> @@
     <<0, 480, 0, 1920>> :> <<10007557, 3708066, 1048576>> @@
     <<0, 480, 0, 2880>> :> <<16679262, 587704, 13631488>> @@
     <<0, 480, 480, -2880>> :> <<15410568, 3173498, 15204352>> @@
     <<0, 480, 480, -1920>> :> <<15410568, 3173498, 14155776>> @@
     <<0, 480, 480, -960>> :> <<10007557, 3708066, 1048576>> @@
     <<0, 480, 480, 0>> :> <<4604546, 4242633, 5242880>> @@
     <<0, 480, 480, 960>> :> <<4604546, 4242633, 5242880>> @@
     <<0, 480, 480, 1920>> :> <<10007557, 3708066, 1048576>>) @@
    (<<0, 480, 480, 2880>> :> <<15410568, 3173498, 15204352>> @@
     <<0, 480, 960, -2880>> :> <<12860701, 6086392, 14680064>> @@
     <<0, 480, 960, -1920>> :> <<12860701, 6086392, 14155776>> @@
     <<0, 480, 960, -960>> :> <<10007557, 3708066, 1048576>> @@
     <<0, 480, 960, 0>> :> <<7154413, 1329739, 5505024>> @@
     <<0, 480, 960, 960>> :> <<7154413, 1329739, 5505024>> @@
     <<0, 480, 960, 1920>> :> <<10007557, 3708066, 1048576>> @@
     <<0, 480, 960, 2880>> :> <<12860701, 6086392, 14680064>> @@
     <<0, 480, 1440, -2880>> :> <<10007557, 3708066, 1048576>> @@
     <<0, 480, 1440, -1920>> :> <<10007557, 3708066, 1048576>> @@
     <<0, 480, 1440, -960>> :> <<10007557, 3708066, 1048576>> @@
     <<0, 480, 1440, 0>> :> <<10007557, 3708066, 1048576>> @@
     <<0, 480, 1440, 960>> :> <<10007557, 3708066, 1048576>> @@
     <<0, 480, 1440, 1920>> :> <<10007557, 3708066, 1048576>> @@
     <<0, 480, 1440, 2880>> :> <<10007557, 3708066, 1048576>> @@
     <<0, 480, 0, 480>> :> <<0, 0, 0>> @@
     <<0, 480, 160, 800>> :> <<2476174, 13939426, 12976128>> @@
     <<0, 480, 8, 0>> :> <<3336272, 9371856, 3407872>> @@
     <<0, 480, 0, 720>> :> <<1667926, 3414213, 11468800>> @@
     <<0, 480, 168, 804>> :> <<2525066, 12991204, 16121856>>) @@
    (<<0, 480, 720, 1440>> :> <<7705284, 1586749, 7077888>> @@
     <<0, 480, -480, -2400>> :> <<16679262, 587704, 13631488>> @@
     <<0, 480, 0, 240>> :> <<1667926, 3414213, 11403264>> @@
     <<0, 480, 480, 480>> :> <<3335852, 6828427, 6029312>> @@
     <<0, 480, -960, 2160>> :> <<10834345, 2546393, 13631488>> @@
     <<0, 480, 160, 960>> :> <<3499859, 7836290, 12976128>> @@
     <<0, 480, 16, 0>> :> <<3337532, 11637078, 12320768>> @@
     <<0, 480, 0, 16>> :> <<3224657, 5482332, 655360>> @@
     <<0, 480, 0, 32>> :> <<3113462, 4136236, 12320768>> @@
     <<0, 480, 16, 16>> :> <<3226407, 7125752, 7340032>> @@
     <<0, 480, 0, 160>> :> <<2223901, 10144690, 3932160>> @@
     <<0, 480, 160, 0>> :> <<3499859, 7836290, 12976128>> @@
     <<0, 480, 160, 160>> :> <<2476174, 13939426, 12845056>> @@
     <<0, 480, 720, 720>> :> <<5217326, 14361393, 11010048>> @@
     <<0, 480, -720, -1440>> :> <<12309830, 5829382, 12582912>> @@
     <<0, 480, 720, -1440>> :> <<12309830, 5829382, 12582912>> @@
     <<0, 480, -160, -960>> :> <<10007557, 3708066, 1048576>> @@
     <<0, 480, 0, 1440>> :> <<6671704, 13656854, 12320768>> @@
     <<0, 480, 0, -1440>> :> <<13343409, 10536493, 7340032>> @@
     <<0, 480, 1, 1>> :> <<3328909, 4971769, 3276800>>) @@
    (<<160, 800, -1440, -2880>> :> <<11119508, 391803, 3145728>> @@
     <<160, 800, -1440, -1920>> :> <<11119508, 391803, 3670016>> @@
     <<160, 800, -1440, -960>> :> <<11119508, 391803, 3145728>> @@
     <<160, 800, -1440, 0>> :> <<11119508, 391803, 3145728>> @@
     <<160, 800, -1440, 960>> :> <<11119508, 391803, 3145728>> @@
     <<160, 800, -1440, 1920>> :> <<11119508, 391803, 3145728>> @@
     <<160, 800, -1440, 2880>> :> <<11119508, 391803, 3145728>> @@
     <<160, 800, -960, -2880>> :> <<13102441, 3961711, 4718592>> @@
     <<160, 800, -960, -1920>> :> <<14393396, 15413682, 1048576>> @@
     <<160, 800, -960, -960>> :> <<12074686, 7822800, 6291456>> @@
     <<160, 800, -960, 0>> :> <<8944228, 7158510, 0>> @@
     <<160, 800, -960, 960>> :> <<7834301, 5363889, 11534336>> @@
     <<160, 800, -960, 1920>> :> <<9892692, 7863238, 5767168>> @@
     <<160, 800, -960, 2880>> :> <<13102441, 3961711, 4718592>> @@
     <<160, 800, -480, -2880>> :> <<14391174, 2010216, 11010048>> @@
     <<160, 800, -480, -1920>> :> <<17561210, 15250829, 5242880>> @@
     <<160, 800, -480, -960>> :> <<12480778, 5232957, 10485760>> @@
     <<160, 800, -480, 0>> :> <<6952273, 8216887, 15990784>> @@
     <<160, 800, -480, 960>> :> <<4574728, 8139040, 14417920>> @@
     <<160, 800, -480, 1920>> :> <<8692994, 7418860, 3145728>>) @@
    (<<160, 800, -480, 2880>> :> <<14391174, 2010216, 10485760>> @@
     <<160, 800, 0, -2880>> :> <<14374571, 11205030, 6815744>> @@
     <<160, 800, 0, -1920>> :> <<18446591, 12057860, 4194304>> @@
     <<160, 800, 0, -960>> :> <<12196265, 6194734, 11010048>> @@
     <<160, 800, 0, 0>> :> <<5640542, 12988317, 13893632>> @@
     <<160, 800, 0, 960>> :> <<1568522, 12135487, 14417920>> @@
     <<160, 800, 0, 1920>> :> <<7818849, 1221397, 8650752>> @@
     <<160, 800, 0, 2880>> :> <<14374571, 11205030, 5242880>> @@
     <<160, 800, 480, -2880>> :> <<13062840, 15976460, 4194304>> @@
     <<160, 800, 480, -1920>> :> <<15440385, 16054307, 6291456>> @@
     <<160, 800, 480, -960>> :> <<11322119, 16774488, 0>> @@
     <<160, 800, 480, 0>> :> <<5623940, 5405915, 8912896>> @@
     <<160, 800, 480, 960>> :> <<2453903, 8942518, 14286848>> @@
     <<160, 800, 480, 1920>> :> <<7534336, 2183174, 8388608>> @@
     <<160, 800, 480, 2880>> :> <<13062840, 15976460, 3670016>> @@
     <<160, 800, 960, -2880>> :> <<11070886, 257622, 2621440>> @@
     <<160, 800, 960, -1920>> :> <<12180813, 2052242, 8388608>> @@
     <<160, 800, 960, -960>> :> <<10122421, 16330109, 13631488>> @@
     <<160, 800, 960, 0>> :> <<6912673, 3454420, 15204352>> @@
     <<160, 800, 960, 960>> :> <<5621717, 8779666, 1835008>>) @@
    (<<160, 800, 960, 1920>> :> <<7940427, 16370547, 12845056>> @@
     <<160, 800, 960, 2880>> :> <<11070886, 257622, 2621440>> @@
     <<160, 800, 1440, -2880>> :> <<8895606, 7024328, 15728640>> @@
     <<160, 800, 1440, -1920>> :> <<8895606, 7024328, 15728640>> @@
     <<160, 800, 1440, -960>> :> <<8895606, 7024328, 15728640>> @@
     <<160, 800, 1440, 0>> :> <<8895606, 7024328, 15728640>> @@
     <<160, 800, 1440, 960>> :> <<8895606, 7024328, 15728640>> @@
     <<160, 800, 1440, 1920>> :> <<8895606, 7024328, 15728640>> @@
     <<160, 800, 1440, 2880>> :> <<8895606, 7024328, 15728640>> @@
     <<160, 800, 0, 480>> :> <<2476174, 13939426, 12976128>> @@
     <<160, 800, 160, 800>> :> <<0, 0, 0>> @@
     <<160, 800, 8, 0>> :> <<5628260, 6131365, 11010048>> @@
     <<160, 800, 0, 720>> :> <<1241932, 10135021, 5832704>> @@
     <<160, 800, 168, 804>> :> <<61962, 12782809, 5134336>> @@
     <<160, 800, 720, 1440>> :> <<5447083, 12684151, 1048576>> @@
     <<160, 800, -480, -2400>> :> <<16974507, 7115355, 7340032>> @@
     <<160, 800, 0, 240>> :> <<4027990, 9761653, 13369344>> @@
     <<160, 800, 480, 480>> :> <<3040607, 300776, 11796480>> @@
     <<160, 800, -960, 2160>> :> <<10693561, 604667, 6291456>> @@
     <<160, 800, 160, 960>> :> <<1095015, 12366286, 2949120>>) @@
    (<<160, 800, 16, 0>> :> <<5616357, 6888985, 5505024>> @@
     <<160, 800, 0, 16>> :> <<5532222, 537931, 11010048>> @@
     <<160, 800, 0, 32>> :> <<5423986, 5961589, 15990784>> @@
     <<160, 800, 16, 16>> :> <<5507706, 14471807, 14680064>> @@
     <<160, 800, 0, 160>> :> <<4561940, 11135655, 14680064>> @@
     <<160, 800, 160, 0>> :> <<5469634, 1496623, 786432>> @@
     <<160, 800, 160, 160>> :> <<4377416, 4973337, 1572864>> @@
     <<160, 800, 720, 720>> :> <<3921164, 16535766, 7995392>> @@
     <<160, 800, -720, -1440>> :> <<14568030, 11509197, 524288>> @@
     <<160, 800, 720, -1440>> :> <<12703613, 13048281, 6815744>> @@
     <<160, 800, -160, -960>> :> <<12366506, 5710108, 2621440>> @@
     <<160, 800, 0, 1440>> :> <<4561940, 11135655, 14680064>> @@
     <<160, 800, 0, -1440>> :> <<15453173, 13057692, 3670016>> @@
     <<160, 800, 1, 1>> :> <<5632213, 390050, 11534336>> @@
     <<8, 0, -1440, -2880>> :> <<10063154, 12769721, 12058624>> @@
     <<8, 0, -1440, -1920>> :> <<10063154, 12769721, 12058624>> @@
     <<8, 0, -1440, -960>> :> <<10063154, 12769721, 12058624>> @@
     <<8, 0, -1440, 0>> :> <<10063154, 12769721, 12058624>> @@
     <<8, 0, -1440, 960>> :> <<10063154, 12769721, 12058624>> @@
     <<8, 0, -1440, 1920>> :> <<10063154, 12769721, 12058624>>) @@
    (<<8, 0, -1440, 2880>> :> <<10063154, 12769721, 12058624>> @@
     <<8, 0, -960, -2880>> :> <<13399007, 2820933, 2097152>> @@
     <<8, 0, -960, -1920>> :> <<11667100, 10442593, 7864320>> @@
     <<8, 0, -960, -960>> :> <<8447469, 7044858, 14680064>> @@
     <<8, 0, -960, 0>> :> <<6727302, 5941294, 6029312>> @@
     <<8, 0, -960, 960>> :> <<8447469, 7044858, 14680064>> @@
     <<8, 0, -960, 1920>> :> <<11667100, 10442593, 7864320>> @@
     <<8, 0, -960, 2880>> :> <<13399007, 2820933, 2097152>> @@
     <<8, 0, -480, -2880>> :> <<16734859, 9649360, 8388608>> @@
     <<8, 0, -480, -1920>> :> <<12891460, 3194170, 11534336>> @@
     <<8, 0, -480, -960>> :> <<7185333, 4484018, 6291456>> @@
     <<8, 0, -480, 0>> :> <<3391449, 15890083, 262144>> @@
     <<8, 0, -480, 960>> :> <<7185333, 4484018, 6291456>> @@
     <<8, 0, -480, 1920>> :> <<12891460, 3194170, 11534336>> @@
     <<8, 0, -480, 2880>> :> <<16734859, 9649360, 8388608>> @@
     <<8, 0, 0, -2880>> :> <<19959516, 15131692, 11534336>> @@
     <<8, 0, 0, -1920>> :> <<13343269, 9569403, 4718592>> @@
     <<8, 0, 0, -960>> :> <<6671844, 14623944, 14417920>> @@
     <<8, 0, 0, 0>> :> <<55597, 9061655, 11005952>> @@
     <<8, 0, 0, 960>> :> <<6671844, 14623944, 14417920>>) @@
    (<<8, 0, 0, 1920>> :> <<13343269, 9569403, 4718592>> @@
     <<8, 0, 0, 2880>> :> <<19959516, 15131692, 11534336>> @@
     <<8, 0, 480, -2880>> :> <<16623664, 8303265, 3670016>> @@
     <<8, 0, 480, -1920>> :> <<12829781, 2932113, 12582912>> @@
     <<8, 0, 480, -960>> :> <<7123654, 4221961, 7864320>> @@
     <<8, 0, 480, 0>> :> <<3280254, 14543987, 11665408>> @@
     <<8, 0, 480, 960>> :> <<7123654, 4221961, 7864320>> @@
     <<8, 0, 480, 1920>> :> <<12829781, 2932113, 12582912>> @@
     <<8, 0, 480, 2880>> :> <<16623664, 8303265, 3670016>> @@
     <<8, 0, 960, -2880>> :> <<13287812, 1474837, 13631488>> @@
     <<8, 0, 960, -1920>> :> <<11567645, 371273, 4194304>> @@
     <<8, 0, 960, -960>> :> <<8348013, 13750754, 11534336>> @@
     <<8, 0, 960, 0>> :> <<6616107, 4595199, 1048576>> @@
     <<8, 0, 960, 960>> :> <<8348013, 13750754, 11534336>> @@
     <<8, 0, 960, 1920>> :> <<11567645, 371273, 4194304>> @@
     <<8, 0, 960, 2880>> :> <<13287812, 1474837, 13631488>> @@
     <<8, 0, 1440, -2880>> :> <<9951959, 11423626, 7340032>> @@
     <<8, 0, 1440, -1920>> :> <<9951959, 11423626, 7340032>> @@
     <<8, 0, 1440, -960>> :> <<9951959, 11423626, 7340032>> @@
     <<8, 0, 1440, 0>> :> <<9951959, 11423626, 7340032>>) @@
    (<<8, 0, 1440, 960>> :> <<9951959, 11423626, 7340032>> @@
     <<8, 0, 1440, 1920>> :> <<9951959, 11423626, 7340032>> @@
     <<8, 0, 1440, 2880>> :> <<9951959, 11423626, 7340032>> @@
     <<8, 0, 0, 480>> :> <<3336272, 9371856, 3407872>> @@
     <<8, 0, 160, 800>> :> <<5628260, 6131365, 11010048>> @@
     <<8, 0, 8, 0>> :> <<0, 0, 0>> @@
     <<8, 0, 0, 720>> :> <<5004021, 3261221, 6815744>> @@
     <<8, 0, 168, 804>> :> <<5662931, 9751948, 16252928>> @@
     <<8, 0, 720, 1440>> :> <<9968244, 1222689, 6815744>> @@
     <<8, 0, -480, -2400>> :> <<15452476, 16315207, 14155776>> @@
     <<8, 0, 0, 240>> :> <<1668831, 5303974, 16646144>> @@
     <<8, 0, 480, 480>> :> <<4562637, 7878140, 5505024>> @@
     <<8, 0, -960, 2160>> :> <<12361290, 7297332, 3670016>> @@
     <<8, 0, 160, 960>> :> <<6716486, 2248097, 6029312>> @@
     <<8, 0, 16, 0>> :> <<55597, 9061655, 11005952>> @@
     <<8, 0, 0, 16>> :> <<124318, 10346694, 7720960>> @@
     <<8, 0, 0, 32>> :> <<229231, 13283992, 15532032>> @@
     <<8, 0, 16, 16>> :> <<124311, 714634, 13864960>> @@
     <<8, 0, 0, 160>> :> <<1113325, 12559996, 11206656>> @@
     <<8, 0, 160, 0>> :> <<1056353, 4399297, 7733248>>) @@
    (<<8, 0, 160, 160>> :> <<1529397, 1732573, 2031616>> @@
     <<8, 0, 720, 720>> :> <<6626356, 11498664, 8912896>> @@
     <<8, 0, -720, -1440>> :> <<10046870, 6193442, 13631488>> @@
     <<8, 0, 720, -1440>> :> <<9968244, 1222689, 6815744>> @@
     <<8, 0, -160, -960>> :> <<6738670, 5023533, 4980736>> @@
     <<8, 0, 0, 1440>> :> <<10007557, 3708066, 1048576>> @@
     <<8, 0, 0, -1440>> :> <<10007557, 3708066, 1048576>> @@
     <<8, 0, 1, 1>> :> <<49141, 12294571, 282624>> @@
     <<0, 720, -1440, -2880>> :> <<10007557, 3708066, 1048576>> @@
     <<0, 720, -1440, -1920>> :> <<10007557, 3708066, 1048576>> @@
     <<0, 720, -1440, -960>> :> <<10007557, 3708066, 1048576>> @@
     <<0, 720, -1440, 0>> :> <<10007557, 3708066, 1048576>> @@
     <<0, 720, -1440, 960>> :> <<10007557, 3708066, 1048576>> @@
     <<0, 720, -1440, 1920>> :> <<10007557, 3708066, 1048576>> @@
     <<0, 720, -1440, 2880>> :> <<10007557, 3708066, 1048576>> @@
     <<0, 720, -960, -2880>> :> <<12309830, 5829382, 12582912>> @@
     <<0, 720, -960, -1920>> :> <<13218770, 6666553, 12058624>> @@
     <<0, 720, -960, -960>> :> <<10834345, 2546393, 13631488>> @@
     <<0, 720, -960, 0>> :> <<7705284, 1586749, 7077888>> @@
     <<0, 720, -960, 960>> :> <<6796344, 749578, 8126464>>) @@
    (<<0, 720, -960, 1920>> :> <<9180769, 4869738, 5767168>> @@
     <<0, 720, -960, 2880>> :> <<12309830, 5829382, 12582912>> @@
     <<0, 720, -480, -2880>> :> <<14206421, 12867767, 13631488>> @@
     <<0, 720, -480, -1920>> :> <<16320553, 2229803, 5767168>> @@
     <<0, 720, -480, -960>> :> <<11447815, 15196179, 12058624>> @@
     <<0, 720, -480, 0>> :> <<5808692, 11325580, 6291456>> @@
     <<0, 720, -480, 960>> :> <<3694561, 5186328, 14286848>> @@
     <<0, 720, -480, 1920>> :> <<8567298, 8997168, 7340032>> @@
     <<0, 720, -480, 2880>> :> <<14206421, 12867767, 13631488>> @@
     <<0, 720, 0, -2880>> :> <<15011335, 13950707, 2097152>> @@
     <<0, 720, 0, -1920>> :> <<18347188, 4001918, 7340032>> @@
     <<0, 720, 0, -960>> :> <<11675483, 7122279, 13107200>> @@
     <<0, 720, 0, 0>> :> <<5003778, 10242641, 786432>> @@
     <<0, 720, 0, 960>> :> <<1667926, 3414213, 11272192>> @@
     <<0, 720, 0, 1920>> :> <<8339631, 293852, 6553600>> @@
     <<0, 720, 0, 2880>> :> <<15011335, 13950707, 2097152>> @@
     <<0, 720, 480, -2880>> :> <<14206421, 12867767, 13631488>> @@
     <<0, 720, 480, -1920>> :> <<16320553, 2229803, 5767168>> @@
     <<0, 720, 480, -960>> :> <<11447815, 15196179, 12058624>> @@
     <<0, 720, 480, 0>> :> <<5808692, 11325580, 6291456>>) @@
    (<<0, 720, 480, 960>> :> <<3694561, 5186328, 14286848>> @@
     <<0, 720, 480, 1920>> :> <<8567298, 8997168, 7340032>> @@
     <<0, 720, 480, 2880>> :> <<14206421, 12867767, 13631488>> @@
     <<0, 720, 960, -2880>> :> <<12309830, 5829382, 12582912>> @@
     <<0, 720, 960, -1920>> :> <<13218770, 6666553, 12058624>> @@
     <<0, 720, 960, -960>> :> <<10834345, 2546393, 13631488>> @@
     <<0, 720, 960, 0>> :> <<7705284, 1586749, 7077888>> @@
     <<0, 720, 960, 960>> :> <<6796344, 749578, 8126464>> @@
     <<0, 720, 960, 1920>> :> <<9180769, 4869738, 5767168>> @@
     <<0, 720, 960, 2880>> :> <<12309830, 5829382, 12582912>> @@
     <<0, 720, 1440, -2880>> :> <<10007557, 3708066, 1048576>> @@
     <<0, 720, 1440, -1920>> :> <<10007557, 3708066, 1048576>> @@
     <<0, 720, 1440, -960>> :> <<10007557, 3708066, 1048576>> @@
     <<0, 720, 1440, 0>> :> <<10007557, 3708066, 1048576>> @@
     <<0, 720, 1440, 960>> :> <<10007557, 3708066, 1048576>> @@
     <<0, 720, 1440, 1920>> :> <<10007557, 3708066, 1048576>> @@
     <<0, 720, 1440, 2880>> :> <<10007557, 3708066, 1048576>> @@
     <<0, 720, 0, 480>> :> <<1667926, 3414213, 11468800>> @@
     <<0, 720, 160, 800>> :> <<1241932, 10135021, 5832704>> @@
     <<0, 720, 8, 0>> :> <<5004021, 3261221, 6815744>>) @@
    (<<0, 720, 0, 720>> :> <<0, 0, 0>> @@
     <<0, 720, 168, 804>> :> <<1303892, 8433332, 8388608>> @@
     <<0, 720, 720, 1440>> :> <<6671704, 13656854, 12320768>> @@
     <<0, 720, -480, -2400>> :> <<16320553, 2229803, 5767168>> @@
     <<0, 720, 0, 240>> :> <<3335852, 6828427, 6160384>> @@
     <<0, 720, 480, 480>> :> <<3694561, 5186328, 14286848>> @@
     <<0, 720, -960, 2160>> :> <<10007557, 3708066, 1048576>> @@
     <<0, 720, 160, 960>> :> <<1997492, 14570014, 14286848>> @@
     <<0, 720, 16, 0>> :> <<5004748, 14631904, 16515072>> @@
     <<0, 720, 0, 16>> :> <<4892583, 8896545, 12058624>> @@
     <<0, 720, 0, 32>> :> <<4781388, 7550450, 6815744>> @@
     <<0, 720, 16, 16>> :> <<4893588, 4363145, 12845056>> @@
     <<0, 720, 0, 160>> :> <<3891827, 13558903, 15335424>> @@
     <<0, 720, 160, 0>> :> <<5099847, 14824321, 2621440>> @@
     <<0, 720, 160, 160>> :> <<4027990, 9761653, 13369344>> @@
     <<0, 720, 720, 720>> :> <<5003778, 10242641, 786432>> @@
     <<0, 720, -720, -1440>> :> <<13343409, 10536493, 7340032>> @@
     <<0, 720, 720, -1440>> :> <<13343409, 10536493, 7340032>> @@
     <<0, 720, -160, -960>> :> <<11649562, 11674304, 4194304>> @@
     <<0, 720, 0, 1440>> :> <<5003778, 10242641, 786432>>) @@
    (<<0, 720, 0, -1440>> :> <<15011335, 13950707, 2097152>> @@
     <<0, 720, 1, 1>> :> <<4996832, 12024913, 6029312>> @@
     <<168, 804, -1440, -2880>> :> <<11175105, 9453458, 14155776>> @@
     <<168, 804, -1440, -1920>> :> <<11175105, 9453458, 14680064>> @@
     <<168, 804, -1440, -960>> :> <<11175105, 9453458, 14155776>> @@
     <<168, 804, -1440, 0>> :> <<11175105, 9453458, 14155776>> @@
     <<168, 804, -1440, 960>> :> <<11175105, 9453458, 14155776>> @@
     <<168, 804, -1440, 1920>> :> <<11175105, 9453458, 14155776>> @@
     <<168, 804, -1440, 2880>> :> <<11175105, 9453458, 14155776>> @@
     <<168, 804, -960, -2880>> :> <<13140624, 8163696, 1572864>> @@
     <<168, 804, -960, -1920>> :> <<14451696, 16023108, 8388608>> @@
     <<168, 804, -960, -960>> :> <<12136530, 9475434, 9961472>> @@
     <<168, 804, -960, 0>> :> <<9006087, 6271712, 9961472>> @@
     <<168, 804, -960, 960>> :> <<7887183, 6389523, 5505024>> @@
     <<168, 804, -960, 1920>> :> <<9928936, 10733248, 3670016>> @@
     <<168, 804, -960, 2880>> :> <<13140624, 8163696, 1572864>> @@
     <<168, 804, -480, -2880>> :> <<14395941, 3884551, 7340032>> @@
     <<168, 804, -480, -1920>> :> <<17623109, 4072659, 3145728>> @@
     <<168, 804, -480, -960>> :> <<12531261, 9611743, 1048576>> @@
     <<168, 804, -480, 0>> :> <<7009656, 9727567, 8912896>>) @@
    (<<168, 804, -480, 960>> :> <<4622754, 825582, 15204352>> @@
     <<168, 804, -480, 1920>> :> <<8701227, 5761592, 1048576>> @@
     <<168, 804, -480, 2880>> :> <<14395941, 3884551, 5767168>> @@
     <<168, 804, 0, -2880>> :> <<14339339, 7182482, 2097152>> @@
     <<168, 804, 0, -1920>> :> <<18425982, 510851, 2097152>> @@
     <<168, 804, 0, -960>> :> <<12219944, 10205239, 1048576>> @@
     <<168, 804, 0, 0>> :> <<5675775, 233650, 1835008>> @@
     <<168, 804, 0, 960>> :> <<1589132, 6905281, 1179648>> @@
     <<168, 804, 0, 1920>> :> <<7795169, 13988109, 1835008>> @@
     <<168, 804, 0, 2880>> :> <<14339339, 7182482, 524288>> @@
     <<168, 804, 480, -2880>> :> <<13005457, 14465780, 12058624>> @@
     <<168, 804, 480, -1920>> :> <<15392360, 6590549, 4194304>> @@
     <<168, 804, 480, -960>> :> <<11313887, 1654540, 1572864>> @@
     <<168, 804, 480, 0>> :> <<5619173, 3531580, 13107200>> @@
     <<168, 804, 480, 960>> :> <<2392005, 3343472, 16515072>> @@
     <<168, 804, 480, 1920>> :> <<7483852, 14581605, 1048576>> @@
     <<168, 804, 480, 2880>> :> <<13005457, 14465780, 11010048>> @@
     <<168, 804, 960, -2880>> :> <<11009027, 1144419, 9437184>> @@
     <<168, 804, 960, -1920>> :> <<12127931, 1026608, 14155776>> @@
     <<168, 804, 960, -960>> :> <<10086177, 13460099, 16252928>>) @@
    (<<168, 804, 960, 0>> :> <<6874489, 16029652, 1048576>> @@
     <<168, 804, 960, 960>> :> <<5563417, 8170239, 11796480>> @@
     <<168, 804, 960, 1920>> :> <<7878583, 14717913, 9175040>> @@
     <<168, 804, 960, 2880>> :> <<11009027, 1144419, 9437184>> @@
     <<168, 804, 1440, -2880>> :> <<8840008, 14739889, 5242880>> @@
     <<168, 804, 1440, -1920>> :> <<8840008, 14739889, 5242880>> @@
     <<168, 804, 1440, -960>> :> <<8840008, 14739889, 5242880>> @@
     <<168, 804, 1440, 0>> :> <<8840008, 14739889, 5242880>> @@
     <<168, 804, 1440, 960>> :> <<8840008, 14739889, 5242880>> @@
     <<168, 804, 1440, 1920>> :> <<8840008, 14739889, 5242880>> @@
     <<168, 804, 1440, 2880>> :> <<8840008, 14739889, 5242880>> @@
     <<168, 804, 0, 480>> :> <<2525066, 12991204, 16121856>> @@
     <<168, 804, 160, 800>> :> <<61962, 12782809, 5134336>> @@
     <<168, 804, 8, 0>> :> <<5662931, 9751948, 16252928>> @@
     <<168, 804, 0, 720>> :> <<1303892, 8433332, 8388608>> @@
     <<168, 804, 168, 804>> :> <<0, 0, 0>> @@
     <<168, 804, 720, 1440>> :> <<5386240, 14320042, 13369344>> @@
     <<168, 804, -480, -2400>> :> <<16998891, 15812034, 7340032>> @@
     <<168, 804, 0, 240>> :> <<4068143, 14515912, 8257536>> @@
     <<168, 804, 480, 480>> :> <<3016222, 8381313, 11796480>>) @@
    (<<168, 804, -960, 2160>> :> <<10727969, 15227986, 2621440>> @@
     <<168, 804, 160, 960>> :> <<1068252, 15202336, 1703936>> @@
     <<168, 804, 16, 0>> :> <<5650461, 10601467, 9175040>> @@
     <<168, 804, 0, 16>> :> <<5567720, 7532826, 4718592>> @@
     <<168, 804, 0, 32>> :> <<5459757, 10935500, 6553600>> @@
     <<168, 804, 16, 16>> :> <<5542065, 16168821, 15204352>> @@
     <<168, 804, 0, 160>> :> <<4600190, 3085707, 10747904>> @@
     <<168, 804, 160, 0>> :> <<5492614, 9015069, 1048576>> @@
     <<168, 804, 160, 160>> :> <<4401499, 6080744, 6815744>> @@
     <<168, 804, 720, 720>> :> <<3868915, 12397986, 14286848>> @@
     <<168, 804, -720, -1440>> :> <<14628873, 9873305, 6815744>> @@
     <<168, 804, 720, -1440>> :> <<12668940, 3353984, 11534336>> @@
     <<168, 804, -160, -960>> :> <<12400269, 7608765, 10485760>> @@
     <<168, 804, 0, 1440>> :> <<4546769, 664755, 6553600>> @@
     <<168, 804, 0, -1440>> :> <<15468345, 6751376, 13107200>> @@
     <<168, 804, 1, 1>> :> <<5667391, 14584346, 1572864>> @@
     <<720, 1440, -1440, -2880>> :> <<15011335, 13950707, 2097152>> @@
     <<720, 1440, -1440, -1920>> :> <<15011335, 13950707, 2097152>> @@
     <<720, 1440, -1440, -960>> :> <<15011335, 13950707, 2097152>> @@
     <<720, 1440, -1440, 0>> :> <<15011335, 13950707, 2097152>>) @@
    (<<720, 1440, -1440, 960>> :> <<15011335, 13950707, 2097152>> @@
     <<720, 1440, -1440, 1920>> :> <<15011335, 13950707, 2097152>> @@
     <<720, 1440, -1440, 2880>> :> <<15011335, 13950707, 2097152>> @@
     <<720, 1440, -960, -2880>> :> <<14206421, 12867767, 13631488>> @@
     <<720, 1440, -960, -1920>> :> <<17426078, 422309, 2097152>> @@
     <<720, 1440, -960, -960>> :> <<17426078, 422309, 2097152>> @@
     <<720, 1440, -960, 0>> :> <<14206421, 12867767, 13631488>> @@
     <<720, 1440, -960, 960>> :> <<11990114, 13081720, 16252928>> @@
     <<720, 1440, -960, 1920>> :> <<11990114, 13081720, 15204352>> @@
     <<720, 1440, -960, 2880>> :> <<14206421, 12867767, 13631488>> @@
     <<720, 1440, -480, -2880>> :> <<12309830, 5829382, 12582912>> @@
     <<720, 1440, -480, -1920>> :> <<16914376, 10072016, 1048576>> @@
     <<720, 1440, -480, -960>> :> <<16914376, 10072015, 15728640>> @@
     <<720, 1440, -480, 0>> :> <<12309830, 5829382, 12058624>> @@
     <<720, 1440, -480, 960>> :> <<8875361, 7032681, 3670016>> @@
     <<720, 1440, -480, 1920>> :> <<8875361, 7032681, 3670016>> @@
     <<720, 1440, -480, 2880>> :> <<12309830, 5829382, 12058624>> @@
     <<720, 1440, 0, -2880>> :> <<10007557, 3708066, 1572864>> @@
     <<720, 1440, 0, -1920>> :> <<14206421, 12867767, 13631488>> @@
     <<720, 1440, 0, -960>> :> <<14206421, 12867767, 13631488>>) @@
    (<<720, 1440, 0, 0>> :> <<10007557, 3708066, 1572864>> @@
     <<720, 1440, 0, 960>> :> <<5808692, 11325580, 6291456>> @@
     <<720, 1440, 0, 1920>> :> <<5808692, 11325580, 6291456>> @@
     <<720, 1440, 0, 2880>> :> <<10007557, 3708066, 1572864>> @@
     <<720, 1440, 480, -2880>> :> <<7705284, 1586749, 7602176>> @@
     <<720, 1440, 480, -1920>> :> <<11139753, 383450, 16252928>> @@
     <<720, 1440, 480, -960>> :> <<11139753, 383450, 16252928>> @@
     <<720, 1440, 480, 0>> :> <<7705284, 1586749, 7077888>> @@
     <<720, 1440, 480, 960>> :> <<3100737, 14121332, 1966080>> @@
     <<720, 1440, 480, 1920>> :> <<3100737, 14121332, 1835008>> @@
     <<720, 1440, 480, 2880>> :> <<7705284, 1586749, 7077888>> @@
     <<720, 1440, 960, -2880>> :> <<5808692, 11325580, 6553600>> @@
     <<720, 1440, 960, -1920>> :> <<8024999, 11111627, 4194304>> @@
     <<720, 1440, 960, -960>> :> <<8024999, 11111627, 4194304>> @@
     <<720, 1440, 960, 0>> :> <<5808692, 11325580, 6291456>> @@
     <<720, 1440, 960, 960>> :> <<2589036, 6993823, 786432>> @@
     <<720, 1440, 960, 1920>> :> <<2589036, 6993823, 655360>> @@
     <<720, 1440, 960, 2880>> :> <<5808692, 11325580, 6291456>> @@
     <<720, 1440, 1440, -2880>> :> <<5003778, 10242641, 1048576>> @@
     <<720, 1440, 1440, -1920>> :> <<5003778, 10242641, 1048576>>) @@
    (<<720, 1440, 1440, -960>> :> <<5003778, 10242641, 1048576>> @@
     <<720, 1440, 1440, 0>> :> <<5003778, 10242641, 1048576>> @@
     <<720, 1440, 1440, 960>> :> <<5003778, 10242641, 786432>> @@
     <<720, 1440, 1440, 1920>> :> <<5003778, 10242641, 786432>> @@
     <<720, 1440, 1440, 2880>> :> <<5003778, 10242641, 1048576>> @@
     <<720, 1440, 0, 480>> :> <<7705284, 1586749, 7077888>> @@
     <<720, 1440, 160, 800>> :> <<5447083, 12684151, 1048576>> @@
     <<720, 1440, 8, 0>> :> <<9968244, 1222689, 6815744>> @@
     <<720, 1440, 0, 720>> :> <<6671704, 13656854, 12320768>> @@
     <<720, 1440, 168, 804>> :> <<5386240, 14320042, 13369344>> @@
     <<720, 1440, 720, 1440>> :> <<0, 0, 0>> @@
     <<720, 1440, -480, -2400>> :> <<14597692, 159647, 2097152>> @@
     <<720, 1440, 0, 240>> :> <<8834972, 13217638, 6291456>> @@
     <<720, 1440, 480, 480>> :> <<5417422, 7256484, 15466496>> @@
     <<720, 1440, -960, 2160>> :> <<12370004, 3971045, 5767168>> @@
     <<720, 1440, 160, 960>> :> <<4832518, 1471316, 9699328>> @@
     <<720, 1440, 16, 0>> :> <<9928932, 7076309, 15728640>> @@
     <<720, 1440, 0, 16>> :> <<9928932, 7076309, 16252928>> @@
     <<720, 1440, 0, 32>> :> <<9850319, 10087837, 9437184>> @@
     <<720, 1440, 16, 16>> :> <<9850307, 10452206, 4718592>>) @@
    (<<720, 1440, 0, 160>> :> <<9223295, 14417538, 2097152>> @@
     <<720, 1440, 160, 0>> :> <<9223295, 14417538, 2097152>> @@
     <<720, 1440, 160, 160>> :> <<8439081, 6629487, 14155776>> @@
     <<720, 1440, 720, 720>> :> <<3491493, 13549262, 14417920>> @@
     <<720, 1440, -720, -1440>> :> <<20015114, 7416132, 3145728>> @@
     <<720, 1440, 720, -1440>> :> <<10007557, 3708066, 1572864>> @@
     <<720, 1440, -160, -960>> :> <<15182596, 5944815, 9961472>> @@
     <<720, 1440, 0, 1440>> :> <<5003778, 10242641, 786432>> @@
     <<720, 1440, 0, -1440>> :> <<15011335, 13950707, 2621440>> @@
     <<720, 1440, 1, 1>> :> <<9997728, 14639531, 7340032>> @@
     <<-480, -2400, -1440, -2880>> :> <<6671704, 13656854, 12320768>> @@
     <<-480, -2400, -1440, -1920>> :> <<6671704, 13656854, 12320768>> @@
     <<-480, -2400, -1440, -960>> :> <<6671704, 13656854, 12320768>> @@
     <<-480, -2400, -1440, 0>> :> <<6671704, 13656854, 12320768>> @@
     <<-480, -2400, -1440, 960>> :> <<6671704, 13656854, 12320768>> @@
     <<-480, -2400, -1440, 1920>> :> <<6671704, 13656854, 12320768>> @@
     <<-480, -2400, -1440, 2880>> :> <<6671704, 13656854, 12320768>> @@
     <<-480, -2400, -960, -2880>> :> <<4013895, 11036053, 10616832>> @@
     <<-480, -2400, -960, -1920>> :> <<4013895, 11036053, 10747904>> @@
     <<-480, -2400, -960, -960>> :> <<7154413, 1329739, 6029312>>) @@
    (<<-480, -2400, -960, 0>> :> <<9637750, 2672569, 1048576>> @@
     <<-480, -2400, -960, 960>> :> <<9637750, 2672569, 1048576>> @@
     <<-480, -2400, -960, 1920>> :> <<7154413, 1329739, 6029312>> @@
     <<-480, -2400, -960, 2880>> :> <<4013895, 11036053, 10354688>> @@
     <<-480, -2400, -480, -2880>> :> <<2880517, 6199011, 3670016>> @@
     <<-480, -2400, -480, -1920>> :> <<2880517, 6199011, 4456448>> @@
     <<-480, -2400, -480, -960>> :> <<8397729, 1542187, 7864320>> @@
     <<-480, -2400, -480, 0>> :> <<12625991, 13820690, 7864320>> @@
     <<-480, -2400, -480, 960>> :> <<12625991, 13820690, 7864320>> @@
     <<-480, -2400, -480, 1920>> :> <<8397729, 1542187, 7864320>> @@
     <<-480, -2400, -480, 2880>> :> <<2880517, 6199011, 3276800>> @@
     <<-480, -2400, 0, -2880>> :> <<4604546, 4242633, 4980736>> @@
     <<-480, -2400, 0, -1920>> :> <<4604546, 4242633, 5505024>> @@
     <<-480, -2400, 0, -960>> :> <<10007557, 3708066, 1572864>> @@
     <<-480, -2400, 0, 0>> :> <<15410568, 3173498, 15204352>> @@
     <<-480, -2400, 0, 960>> :> <<15410568, 3173498, 15204352>> @@
     <<-480, -2400, 0, 1920>> :> <<10007557, 3708066, 1572864>> @@
     <<-480, -2400, 0, 2880>> :> <<4604546, 4242633, 4718592>> @@
     <<-480, -2400, 480, -2880>> :> <<7389122, 10372657, 12058624>> @@
     <<-480, -2400, 480, -1920>> :> <<7389122, 10372657, 12058624>>) @@
    (<<-480, -2400, 480, -960>> :> <<11617385, 5873944, 12582912>> @@
     <<-480, -2400, 480, 0>> :> <<17134597, 1217121, 0>> @@
     <<-480, -2400, 480, 960>> :> <<17134597, 1217121, 0>> @@
     <<-480, -2400, 480, 1920>> :> <<11617385, 5873944, 12582912>> @@
     <<-480, -2400, 480, 2880>> :> <<7389122, 10372657, 11272192>> @@
     <<-480, -2400, 960, -2880>> :> <<10377364, 4743563, 2097152>> @@
     <<-480, -2400, 960, -1920>> :> <<10377364, 4743563, 2097152>> @@
     <<-480, -2400, 960, -960>> :> <<12860701, 6086392, 14680064>> @@
     <<-480, -2400, 960, 0>> :> <<16001218, 13157294, 9961472>> @@
     <<-480, -2400, 960, 960>> :> <<16001218, 13157294, 9961472>> @@
     <<-480, -2400, 960, 1920>> :> <<12860701, 6086392, 14680064>> @@
     <<-480, -2400, 960, 2880>> :> <<10377364, 4743563, 1572864>> @@
     <<-480, -2400, 1440, -2880>> :> <<13343409, 10536493, 7340032>> @@
     <<-480, -2400, 1440, -1920>> :> <<13343409, 10536493, 7340032>> @@
     <<-480, -2400, 1440, -960>> :> <<13343409, 10536493, 7340032>> @@
     <<-480, -2400, 1440, 0>> :> <<13343409, 10536493, 7340032>> @@
     <<-480, -2400, 1440, 960>> :> <<13343409, 10536493, 7340032>> @@
     <<-480, -2400, 1440, 1920>> :> <<13343409, 10536493, 7340032>> @@
     <<-480, -2400, 1440, 2880>> :> <<13343409, 10536493, 7340032>> @@
     <<-480, -2400, 0, 480>> :> <<16679262, 587704, 13631488>>) @@
    (<<-480, -2400, 160, 800>> :> <<16974507, 7115355, 7340032>> @@
     <<-480, -2400, 8, 0>> :> <<15452476, 16315207, 14155776>> @@
     <<-480, -2400, 0, 720>> :> <<16320553, 2229803, 5767168>> @@
     <<-480, -2400, 168, 804>> :> <<16998891, 15812034, 7340032>> @@
     <<-480, -2400, 720, 1440>> :> <<14597692, 159647, 2097152>> @@
     <<-480, -2400, -480, -2400>> :> <<0, 0, 0>> @@
     <<-480, -2400, 0, 240>> :> <<16320553, 2229803, 5767168>> @@
     <<-480, -2400, 480, 480>> :> <<20015114, 7416132, 3145728>> @@
     <<-480, -2400, -960, 2160>> :> <<6334733, 16044465, 11272192>> @@
     <<-480, -2400, 160, 960>> :> <<16193573, 2949403, 14680064>> @@
     <<-480, -2400, 16, 0>> :> <<15494143, 3322671, 12058624>> @@
     <<-480, -2400, 0, 16>> :> <<15482723, 5845180, 11010048>> @@
     <<-480, -2400, 0, 32>> :> <<15553557, 14401474, 3670016>> @@
     <<-480, -2400, 16, 16>> :> <<15567403, 4049286, 3670016>> @@
     <<-480, -2400, 0, 160>> :> <<16064203, 6320738, 2621440>> @@
     <<-480, -2400, 160, 0>> :> <<16193573, 2949403, 14680064>> @@
     <<-480, -2400, 160, 160>> :> <<16974507, 7115355, 7340032>> @@
     <<-480, -2400, 720, 720>> :> <<17893447, 5702286, 10485760>> @@
     <<-480, -2400, -720, -1440>> :> <<5417422, 7256484, 15466496>> @@
     <<-480, -2400, 720, -1440>> :> <<10309446, 14366702, 0>>) @@
    (<<-480, -2400, -160, -960>> :> <<9453702, 13928593, 2097152>> @@
     <<-480, -2400, 0, 1440>> :> <<12860701, 6086392, 13107200>> @@
     <<-480, -2400, 0, -1440>> :> <<7154413, 1329739, 5505024>> @@
     <<-480, -2400, 1, 1>> :> <<15420371, 4356463, 14680064>> @@
     <<0, 240, -1440, -2880>> :> <<10007557, 3708066, 1048576>> @@
     <<0, 240, -1440, -1920>> :> <<10007557, 3708066, 1048576>> @@
     <<0, 240, -1440, -960>> :> <<10007557, 3708066, 1048576>> @@
     <<0, 240, -1440, 0>> :> <<10007557, 3708066, 1048576>> @@
     <<0, 240, -1440, 960>> :> <<10007557, 3708066, 1048576>> @@
     <<0, 240, -1440, 1920>> :> <<10007557, 3708066, 1048576>> @@
     <<0, 240, -1440, 2880>> :> <<10007557, 3708066, 1048576>> @@
     <<0, 240, -960, -2880>> :> <<13218770, 6666553, 12058624>> @@
     <<0, 240, -960, -1920>> :> <<12309830, 5829382, 12582912>> @@
     <<0, 240, -960, -960>> :> <<9180769, 4869738, 5767168>> @@
     <<0, 240, -960, 0>> :> <<6796344, 749578, 8126464>> @@
     <<0, 240, -960, 960>> :> <<7705284, 1586749, 7077888>> @@
     <<0, 240, -960, 1920>> :> <<10834345, 2546393, 13631488>> @@
     <<0, 240, -960, 2880>> :> <<13218770, 6666553, 12058624>> @@
     <<0, 240, -480, -2880>> :> <<16320553, 2229803, 5767168>> @@
     <<0, 240, -480, -1920>> :> <<14206421, 12867767, 13631488>>) @@
    (<<0, 240, -480, -960>> :> <<8567298, 8997168, 7340032>> @@
     <<0, 240, -480, 0>> :> <<3694561, 5186328, 14286848>> @@
     <<0, 240, -480, 960>> :> <<5808692, 11325580, 6291456>> @@
     <<0, 240, -480, 1920>> :> <<11447815, 15196179, 12058624>> @@
     <<0, 240, -480, 2880>> :> <<16320553, 2229803, 5767168>> @@
     <<0, 240, 0, -2880>> :> <<18347188, 4001918, 7340032>> @@
     <<0, 240, 0, -1920>> :> <<15011335, 13950707, 2097152>> @@
     <<0, 240, 0, -960>> :> <<8339631, 293852, 6553600>> @@
     <<0, 240, 0, 0>> :> <<1667926, 3414213, 11403264>> @@
     <<0, 240, 0, 960>> :> <<5003778, 10242641, 786432>> @@
     <<0, 240, 0, 1920>> :> <<11675483, 7122279, 13107200>> @@
     <<0, 240, 0, 2880>> :> <<18347188, 4001918, 7340032>> @@
     <<0, 240, 480, -2880>> :> <<16320553, 2229803, 5767168>> @@
     <<0, 240, 480, -1920>> :> <<14206421, 12867767, 13631488>> @@
     <<0, 240, 480, -960>> :> <<8567298, 8997168, 7340032>> @@
     <<0, 240, 480, 0>> :> <<3694561, 5186328, 14286848>> @@
     <<0, 240, 480, 960>> :> <<5808692, 11325580, 6291456>> @@
     <<0, 240, 480, 1920>> :> <<11447815, 15196179, 12058624>> @@
     <<0, 240, 480, 2880>> :> <<16320553, 2229803, 5767168>> @@
     <<0, 240, 960, -2880>> :> <<13218770, 6666553, 12058624>>) @@
    (<<0, 240, 960, -1920>> :> <<12309830, 5829382, 12582912>> @@
     <<0, 240, 960, -960>> :> <<9180769, 4869738, 5767168>> @@
     <<0, 240, 960, 0>> :> <<6796344, 749578, 8126464>> @@
     <<0, 240, 960, 960>> :> <<7705284, 1586749, 7077888>> @@
     <<0, 240, 960, 1920>> :> <<10834345, 2546393, 13631488>> @@
     <<0, 240, 960, 2880>> :> <<13218770, 6666553, 12058624>> @@
     <<0, 240, 1440, -2880>> :> <<10007557, 3708066, 1048576>> @@
     <<0, 240, 1440, -1920>> :> <<10007557, 3708066, 1048576>> @@
     <<0, 240, 1440, -960>> :> <<10007557, 3708066, 1048576>> @@
     <<0, 240, 1440, 0>> :> <<10007557, 3708066, 1048576>> @@
     <<0, 240, 1440, 960>> :> <<10007557, 3708066, 1048576>> @@
     <<0, 240, 1440, 1920>> :> <<10007557, 3708066, 1048576>> @@
     <<0, 240, 1440, 2880>> :> <<10007557, 3708066, 1048576>> @@
     <<0, 240, 0, 480>> :> <<1667926, 3414213, 11403264>> @@
     <<0, 240, 160, 800>> :> <<4027990, 9761653, 13369344>> @@
     <<0, 240, 8, 0>> :> <<1668831, 5303974, 16646144>> @@
     <<0, 240, 0, 720>> :> <<3335852, 6828427, 6160384>> @@
     <<0, 240, 168, 804>> :> <<4068143, 14515912, 8257536>> @@
     <<0, 240, 720, 1440>> :> <<8834972, 13217638, 6291456>> @@
     <<0, 240, -480, -2400>> :> <<16320553, 2229803, 5767168>>) @@
    (<<0, 240, 0, 240>> :> <<0, 0, 0>> @@
     <<0, 240, 480, 480>> :> <<3694561, 5186328, 14286848>> @@
     <<0, 240, -960, 2160>> :> <<11617385, 5873944, 12582912>> @@
     <<0, 240, 160, 960>> :> <<5099847, 14824321, 2621440>> @@
     <<0, 240, 16, 0>> :> <<1671543, 11948243, 11927552>> @@
     <<0, 240, 0, 16>> :> <<1556731, 2068118, 6160384>> @@
     <<0, 240, 0, 32>> :> <<1445536, 722023, 917504>> @@
     <<0, 240, 16, 16>> :> <<1560618, 2864775, 6291456>> @@
     <<0, 240, 0, 160>> :> <<555975, 6730476, 9371648>> @@
     <<0, 240, 160, 0>> :> <<1997492, 14570014, 14352384>> @@
     <<0, 240, 160, 160>> :> <<1241932, 10135021, 5767168>> @@
     <<0, 240, 720, 720>> :> <<5808692, 11325580, 6291456>> @@
     <<0, 240, -720, -1440>> :> <<11180141, 10975709, 14155776>> @@
     <<0, 240, 720, -1440>> :> <<11180141, 10975709, 14155776>> @@
     <<0, 240, -160, -960>> :> <<8365551, 12519043, 14942208>> @@
     <<0, 240, 0, 1440>> :> <<8339631, 293852, 6815744>> @@
     <<0, 240, 0, -1440>> :> <<11675483, 7122279, 13107200>> @@
     <<0, 240, 1, 1>> :> <<1660990, 12064971, 12058624>> @@
     <<480, 480, -1440, -2880>> :> <<13343409, 10536493, 7340032>> @@
     <<480, 480, -1440, -1920>> :> <<13343409, 10536493, 7340032>>) @@
    (<<480, 480, -1440, -960>> :> <<13343409, 10536493, 7340032>> @@
     <<480, 480, -1440, 0>> :> <<13343409, 10536493, 7340032>> @@
     <<480, 480, -1440, 960>> :> <<13343409, 10536493, 7340032>> @@
     <<480, 480, -1440, 1920>> :> <<13343409, 10536493, 7340032>> @@
     <<480, 480, -1440, 2880>> :> <<13343409, 10536493, 7340032>> @@
     <<480, 480, -960, -2880>> :> <<16001218, 13157294, 9961472>> @@
     <<480, 480, -960, -1920>> :> <<16001218, 13157294, 8388608>> @@
     <<480, 480, -960, -960>> :> <<12860701, 6086392, 14155776>> @@
     <<480, 480, -960, 0>> :> <<10377364, 4743563, 2097152>> @@
     <<480, 480, -960, 960>> :> <<10377364, 4743563, 2097152>> @@
     <<480, 480, -960, 1920>> :> <<12860701, 6086392, 14155776>> @@
     <<480, 480, -960, 2880>> :> <<16001218, 13157294, 9961472>> @@
     <<480, 480, -480, -2880>> :> <<17134597, 1217121, 0>> @@
     <<480, 480, -480, -1920>> :> <<17134597, 1217121, 0>> @@
     <<480, 480, -480, -960>> :> <<11617385, 5873944, 12582912>> @@
     <<480, 480, -480, 0>> :> <<7389122, 10372657, 12058624>> @@
     <<480, 480, -480, 960>> :> <<7389122, 10372657, 12058624>> @@
     <<480, 480, -480, 1920>> :> <<11617385, 5873944, 12582912>> @@
     <<480, 480, -480, 2880>> :> <<17134597, 1217121, 0>> @@
     <<480, 480, 0, -2880>> :> <<15410568, 3173498, 15204352>>) @@
    (<<480, 480, 0, -1920>> :> <<15410568, 3173498, 14155776>> @@
     <<480, 480, 0, -960>> :> <<10007557, 3708066, 1048576>> @@
     <<480, 480, 0, 0>> :> <<4604546, 4242633, 5242880>> @@
     <<480, 480, 0, 960>> :> <<4604546, 4242633, 5242880>> @@
     <<480, 480, 0, 1920>> :> <<10007557, 3708066, 1048576>> @@
     <<480, 480, 0, 2880>> :> <<15410568, 3173498, 15204352>> @@
     <<480, 480, 480, -2880>> :> <<12625991, 13820690, 7864320>> @@
     <<480, 480, 480, -1920>> :> <<12625991, 13820690, 7864320>> @@
     <<480, 480, 480, -960>> :> <<8397729, 1542187, 6815744>> @@
     <<480, 480, 480, 0>> :> <<2880517, 6199011, 3932160>> @@
     <<480, 480, 480, 960>> :> <<2880517, 6199011, 3932160>> @@
     <<480, 480, 480, 1920>> :> <<8397729, 1542187, 6815744>> @@
     <<480, 480, 480, 2880>> :> <<12625991, 13820690, 7864320>> @@
     <<480, 480, 960, -2880>> :> <<9637750, 2672569, 1048576>> @@
     <<480, 480, 960, -1920>> :> <<9637750, 2672569, 1048576>> @@
     <<480, 480, 960, -960>> :> <<7154413, 1329739, 5505024>> @@
     <<480, 480, 960, 0>> :> <<4013895, 11036053, 10616832>> @@
     <<480, 480, 960, 960>> :> <<4013895, 11036053, 10616832>> @@
     <<480, 480, 960, 1920>> :> <<7154413, 1329739, 5505024>> @@
     <<480, 480, 960, 2880>> :> <<9637750, 2672569, 1048576>>) @@
    (<<480, 480, 1440, -2880>> :> <<6671704, 13656854, 12320768>> @@
     <<480, 480, 1440, -1920>> :> <<6671704, 13656854, 12320768>> @@
     <<480, 480, 1440, -960>> :> <<6671704, 13656854, 12320768>> @@
     <<480, 480, 1440, 0>> :> <<6671704, 13656854, 12320768>> @@
     <<480, 480, 1440, 960>> :> <<6671704, 13656854, 12320768>> @@
     <<480, 480, 1440, 1920>> :> <<6671704, 13656854, 12320768>> @@
     <<480, 480, 1440, 2880>> :> <<6671704, 13656854, 12320768>> @@
     <<480, 480, 0, 480>> :> <<3335852, 6828427, 6029312>> @@
     <<480, 480, 160, 800>> :> <<3040607, 300776, 11796480>> @@
     <<480, 480, 8, 0>> :> <<4562637, 7878140, 5505024>> @@
     <<480, 480, 0, 720>> :> <<3694561, 5186328, 14286848>> @@
     <<480, 480, 168, 804>> :> <<3016222, 8381313, 11796480>> @@
     <<480, 480, 720, 1440>> :> <<5417422, 7256484, 15466496>> @@
     <<480, 480, -480, -2400>> :> <<20015114, 7416132, 3145728>> @@
     <<480, 480, 0, 240>> :> <<3694561, 5186328, 14286848>> @@
     <<480, 480, 480, 480>> :> <<0, 0, 0>> @@
     <<480, 480, -960, 2160>> :> <<13680380, 8148882, 8912896>> @@
     <<480, 480, 160, 960>> :> <<3821541, 4466728, 5898240>> @@
     <<480, 480, 16, 0>> :> <<4520971, 4093460, 7602176>> @@
     <<480, 480, 0, 16>> :> <<4532391, 1570951, 8388608>>) @@
    (<<480, 480, 0, 32>> :> <<4461556, 9791873, 16515072>> @@
     <<480, 480, 16, 16>> :> <<4447711, 3366845, 15728640>> @@
     <<480, 480, 0, 160>> :> <<3950911, 1095394, 0>> @@
     <<480, 480, 160, 0>> :> <<3821541, 4466728, 5898240>> @@
     <<480, 480, 160, 160>> :> <<3040607, 300776, 11665408>> @@
     <<480, 480, 720, 720>> :> <<2121667, 1713845, 9043968>> @@
     <<480, 480, -720, -1440>> :> <<14597692, 159647, 4718592>> @@
     <<480, 480, 720, -1440>> :> <<9705667, 9826646, 2621440>> @@
     <<480, 480, -160, -960>> :> <<10561411, 10264755, 524288>> @@
     <<480, 480, 0, 1440>> :> <<7154413, 1329739, 5505024>> @@
     <<480, 480, 0, -1440>> :> <<12860701, 6086392, 14155776>> @@
     <<480, 480, 1, 1>> :> <<4594743, 3059668, 5242880>> @@
     <<-960, 2160, -1440, -2880>> :> <<3335852, 6828427, 6160384>> @@
     <<-960, 2160, -1440, -1920>> :> <<3335852, 6828427, 6160384>> @@
     <<-960, 2160, -1440, -960>> :> <<3335852, 6828427, 6422528>> @@
     <<-960, 2160, -1440, 0>> :> <<3335852, 6828427, 6422528>> @@
     <<-960, 2160, -1440, 960>> :> <<3335852, 6828427, 6160384>> @@
     <<-960, 2160, -1440, 1920>> :> <<3335852, 6828427, 6160384>> @@
     <<-960, 2160, -1440, 2880>> :> <<3335852, 6828427, 6160384>> @@
     <<-960, 2160, -960, -2880>> :> <<2453207, 1944317, 11665408>>) @@
    (<<-960, 2160, -960, -1920>> :> <<5197388, 1694878, 14942208>> @@
     <<-960, 2160, -960, -960>> :> <<6608857, 4166959, 3932160>> @@
     <<-960, 2160, -960, 0>> :> <<6118475, 8440667, 12845056>> @@
     <<-960, 2160, -960, 960>> :> <<3940956, 670016, 4587520>> @@
     <<-960, 2160, -960, 1920>> :> <<832174, 16390635, 163840>> @@
     <<-960, 2160, -960, 2880>> :> <<2453207, 1944317, 11403264>> @@
     <<-960, 2160, -480, -2880>> :> <<4707641, 10020744, 7340032>> @@
     <<-960, 2160, -480, -1920>> :> <<7926004, 7321164, 1048576>> @@
     <<-960, 2160, -480, -960>> :> <<9913552, 7415751, 5767168>> @@
     <<-960, 2160, -480, 0>> :> <<9197362, 10113900, 7864320>> @@
     <<-960, 2160, -480, 960>> :> <<6334733, 16044465, 10485760>> @@
     <<-960, 2160, -480, 1920>> :> <<3519305, 16473485, 7995392>> @@
     <<-960, 2160, -480, 2880>> :> <<4707641, 10020744, 7340032>> @@
     <<-960, 2160, 0, -2880>> :> <<7705284, 1586749, 7077888>> @@
     <<-960, 2160, 0, -1920>> :> <<10834345, 2546393, 13631488>> @@
     <<-960, 2160, 0, -960>> :> <<13218770, 6666553, 12058624>> @@
     <<-960, 2160, 0, 0>> :> <<12309830, 5829382, 12582912>> @@
     <<-960, 2160, 0, 960>> :> <<9180769, 4869738, 6291456>> @@
     <<-960, 2160, 0, 1920>> :> <<6796344, 749578, 8126464>> @@
     <<-960, 2160, 0, 2880>> :> <<7705284, 1586749, 7077888>>) @@
    (<<-960, 2160, 480, -2880>> :> <<10817751, 14079447, 11010048>> @@
     <<-960, 2160, 480, -1920>> :> <<13680380, 8148882, 8912896>> @@
     <<-960, 2160, 480, -960>> :> <<16495808, 7719862, 13631488>> @@
     <<-960, 2160, 480, 0>> :> <<15307472, 14172603, 12582912>> @@
     <<-960, 2160, 480, 960>> :> <<12089110, 94968, 2097152>> @@
     <<-960, 2160, 480, 1920>> :> <<10101562, 380, 14155776>> @@
     <<-960, 2160, 480, 2880>> :> <<10817751, 14079447, 11010048>> @@
     <<-960, 2160, 960, -2880>> :> <<13896638, 15752680, 6815744>> @@
     <<-960, 2160, 960, -1920>> :> <<16074158, 6746115, 15728640>> @@
     <<-960, 2160, 960, -960>> :> <<19182939, 7802713, 4194304>> @@
     <<-960, 2160, 960, 0>> :> <<17561907, 5471814, 7340032>> @@
     <<-960, 2160, 960, 960>> :> <<14817726, 5721253, 3670016>> @@
     <<-960, 2160, 960, 1920>> :> <<13406257, 3249172, 15728640>> @@
     <<-960, 2160, 960, 2880>> :> <<13896638, 15752680, 6815744>> @@
     <<-960, 2160, 1440, -2880>> :> <<16679262, 587704, 12058624>> @@
     <<-960, 2160, 1440, -1920>> :> <<16679262, 587704, 12058624>> @@
     <<-960, 2160, 1440, -960>> :> <<16679262, 587704, 12058624>> @@
     <<-960, 2160, 1440, 0>> :> <<16679262, 587704, 12058624>> @@
     <<-960, 2160, 1440, 960>> :> <<16679262, 587704, 12058624>> @@
     <<-960, 2160, 1440, 1920>> :> <<16679262, 587704, 12058624>>) @@
    (<<-960, 2160, 1440, 2880>> :> <<16679262, 587704, 12058624>> @@
     <<-960, 2160, 0, 480>> :> <<10834345, 2546393, 13631488>> @@
     <<-960, 2160, 160, 800>> :> <<10693561, 604667, 6291456>> @@
     <<-960, 2160, 8, 0>> :> <<12361290, 7297332, 3670016>> @@
     <<-960, 2160, 0, 720>> :> <<10007557, 3708066, 1048576>> @@
     <<-960, 2160, 168, 804>> :> <<10727969, 15227986, 2621440>> @@
     <<-960, 2160, 720, 1440>> :> <<12370004, 3971045, 5767168>> @@
     <<-960, 2160, -480, -2400>> :> <<6334733, 16044465, 11272192>> @@
     <<-960, 2160, 0, 240>> :> <<11617385, 5873944, 12582912>> @@
     <<-960, 2160, 480, 480>> :> <<13680380, 8148882, 8912896>> @@
     <<-960, 2160, -960, 2160>> :> <<0, 0, 0>> @@
     <<-960, 2160, 160, 960>> :> <<10153722, 7772230, 3670016>> @@
     <<-960, 2160, 16, 0>> :> <<12412723, 8650325, 15204352>> @@
     <<-960, 2160, 0, 16>> :> <<12267490, 13451605, 6815744>> @@
     <<-960, 2160, 0, 32>> :> <<12224538, 2981972, 1048576>> @@
     <<-960, 2160, 16, 16>> :> <<12370127, 13488455, 2097152>> @@
     <<-960, 2160, 0, 160>> :> <<11860708, 11842757, 8388608>> @@
     <<-960, 2160, 160, 0>> :> <<13332864, 3493951, 5242880>> @@
     <<-960, 2160, 160, 160>> :> <<12859304, 611393, 7340032>> @@
     <<-960, 2160, 720, 720>> :> <<14206421, 12867767, 13631488>>) @@
    (<<-960, 2160, -720, -1440>> :> <<7645110, 3445086, 13631488>> @@
     <<-960, 2160, 720, -1440>> :> <<16633006, 4757114, 10485760>> @@
     <<-960, 2160, -160, -960>> :> <<12118065, 7670361, 7340032>> @@
     <<-960, 2160, 0, 1440>> :> <<7705284, 1586749, 7077888>> @@
     <<-960, 2160, 0, -1440>> :> <<12309830, 5829382, 12582912>> @@
     <<-960, 2160, 1, 1>> :> <<12313635, 5717241, 11534336>> @@
     <<160, 960, -1440, -2880>> :> <<11119508, 391803, 3145728>> @@
     <<160, 960, -1440, -1920>> :> <<11119508, 391803, 3670016>> @@
     <<160, 960, -1440, -960>> :> <<11119508, 391803, 3145728>> @@
     <<160, 960, -1440, 0>> :> <<11119508, 391803, 3145728>> @@
     <<160, 960, -1440, 960>> :> <<11119508, 391803, 3145728>> @@
     <<160, 960, -1440, 1920>> :> <<11119508, 391803, 3145728>> @@
     <<160, 960, -1440, 2880>> :> <<11119508, 391803, 3145728>> @@
     <<160, 960, -960, -2880>> :> <<12605619, 12022025, 14680064>> @@
     <<160, 960, -960, -1920>> :> <<14455360, 7220230, 9437184>> @@
     <<160, 960, -960, -960>> :> <<12605619, 12022025, 13631488>> @@
     <<160, 960, -960, 0>> :> <<9396160, 10003534, 12058624>> @@
     <<160, 960, -960, 960>> :> <<7783655, 10340591, 13893632>> @@
     <<160, 960, -960, 1920>> :> <<9396160, 10003534, 12058624>> @@
     <<160, 960, -960, 2880>> :> <<12605619, 12022025, 14680064>>) @@
    (<<160, 960, -480, -2880>> :> <<13441384, 15701923, 13631488>> @@
     <<160, 960, -480, -1920>> :> <<17791212, 14048657, 14680064>> @@
     <<160, 960, -480, -960>> :> <<13441384, 15701923, 12058624>> @@
     <<160, 960, -480, 0>> :> <<7799987, 5221839, 9961472>> @@
     <<160, 960, -480, 960>> :> <<4447803, 3512164, 8126464>> @@
     <<160, 960, -480, 1920>> :> <<7799987, 5221839, 9961472>> @@
     <<160, 960, -480, 2880>> :> <<13441384, 15701923, 13631488>> @@
     <<160, 960, 0, -2880>> :> <<13287668, 80208, 5767168>> @@
     <<160, 960, 0, -1920>> :> <<18903163, 10732395, 1048576>> @@
     <<160, 960, 0, -960>> :> <<13287668, 80208, 5242880>> @@
     <<160, 960, 0, 0>> :> <<6727446, 7335923, 13369344>> @@
     <<160, 960, 0, 960>> :> <<1111950, 13460953, 2031616>> @@
     <<160, 960, 0, 1920>> :> <<6727446, 7335923, 13369344>> @@
     <<160, 960, 0, 2880>> :> <<13287668, 80208, 5767168>> @@
     <<160, 960, 480, -2880>> :> <<12215127, 2194292, 9961472>> @@
     <<160, 960, 480, -1920>> :> <<15567311, 3903967, 12058624>> @@
     <<160, 960, 480, -960>> :> <<12215127, 2194292, 8388608>> @@
     <<160, 960, 480, 0>> :> <<6573729, 8491424, 6553600>> @@
     <<160, 960, 480, 960>> :> <<2223901, 10144690, 3932160>> @@
     <<160, 960, 480, 1920>> :> <<6573729, 8491424, 6553600>>) @@
    (<<160, 960, 480, 2880>> :> <<12215127, 2194292, 9961472>> @@
     <<160, 960, 960, -2880>> :> <<10618953, 14189813, 7340032>> @@
     <<160, 960, 960, -1920>> :> <<12231458, 13852756, 5242880>> @@
     <<160, 960, 960, -960>> :> <<10618953, 14189813, 6815744>> @@
     <<160, 960, 960, 0>> :> <<7409494, 12171322, 4980736>> @@
     <<160, 960, 960, 960>> :> <<5559754, 195901, 9961472>> @@
     <<160, 960, 960, 1920>> :> <<7409494, 12171322, 4980736>> @@
     <<160, 960, 960, 2880>> :> <<10618953, 14189813, 7340032>> @@
     <<160, 960, 1440, -2880>> :> <<8895606, 7024328, 15728640>> @@
     <<160, 960, 1440, -1920>> :> <<8895606, 7024328, 15728640>> @@
     <<160, 960, 1440, -960>> :> <<8895606, 7024328, 15728640>> @@
     <<160, 960, 1440, 0>> :> <<8895606, 7024328, 15728640>> @@
     <<160, 960, 1440, 960>> :> <<8895606, 7024328, 15728640>> @@
     <<160, 960, 1440, 1920>> :> <<8895606, 7024328, 15728640>> @@
     <<160, 960, 1440, 2880>> :> <<8895606, 7024328, 15728640>> @@
     <<160, 960, 0, 480>> :> <<3499859, 7836290, 12976128>> @@
     <<160, 960, 160, 800>> :> <<1095015, 12366286, 2949120>> @@
     <<160, 960, 8, 0>> :> <<6716486, 2248097, 6029312>> @@
     <<160, 960, 0, 720>> :> <<1997492, 14570014, 14286848>> @@
     <<160, 960, 168, 804>> :> <<1068252, 15202336, 1703936>>) @@
    (<<160, 960, 720, 1440>> :> <<4832518, 1471316, 9699328>> @@
     <<160, 960, -480, -2400>> :> <<16193573, 2949403, 14680064>> @@
     <<160, 960, 0, 240>> :> <<5099847, 14824321, 2621440>> @@
     <<160, 960, 480, 480>> :> <<3821541, 4466728, 5898240>> @@
     <<160, 960, -960, 2160>> :> <<10153722, 7772230, 3670016>> @@
     <<160, 960, 160, 960>> :> <<0, 0, 0>> @@
     <<160, 960, 16, 0>> :> <<6705790, 16193614, 524288>> @@
     <<160, 960, 0, 16>> :> <<6618509, 2846019, 8650752>> @@
     <<160, 960, 0, 32>> :> <<6509618, 4804484, 6291456>> @@
     <<160, 960, 16, 16>> :> <<6596654, 9872322, 4194304>> @@
     <<160, 960, 0, 160>> :> <<5640542, 12988317, 13369344>> @@
     <<160, 960, 160, 0>> :> <<6560221, 9521500, 8126464>> @@
     <<160, 960, 160, 160>> :> <<5469634, 1496623, 524288>> @@
     <<160, 960, 720, 720>> :> <<4148096, 9924019, 8650752>> @@
     <<160, 960, -720, -1440>> :> <<15182596, 5944815, 9961472>> @@
     <<160, 960, 720, -1440>> :> <<13199276, 78695, 5767168>> @@
     <<160, 960, -160, -960>> :> <<13454892, 14671847, 9961472>> @@
     <<160, 960, 0, 1440>> :> <<3499859, 7836290, 13238272>> @@
     <<160, 960, 0, -1440>> :> <<16515254, 16357057, 5242880>> @@
     <<160, 960, 1, 1>> :> <<6719251, 3888610, 10223616>>) @@
    (<<16, 0, -1440, -2880>> :> <<10118752, 5054161, 6815744>> @@
     <<16, 0, -1440, -1920>> :> <<10118752, 5054161, 6815744>> @@
     <<16, 0, -1440, -960>> :> <<10118752, 5054161, 6815744>> @@
     <<16, 0, -1440, 0>> :> <<10118752, 5054161, 6815744>> @@
     <<16, 0, -1440, 960>> :> <<10118752, 5054161, 6815744>> @@
     <<16, 0, -1440, 1920>> :> <<10118752, 5054161, 6815744>> @@
     <<16, 0, -1440, 2880>> :> <<10118752, 5054161, 6815744>> @@
     <<16, 0, -960, -2880>> :> <<13454604, 11882588, 12582912>> @@
     <<16, 0, -960, -1920>> :> <<11716789, 15494883, 8912896>> @@
     <<16, 0, -960, -960>> :> <<8497233, 15116929, 4718592>> @@
     <<16, 0, -960, 0>> :> <<6782899, 15002950, 524288>> @@
     <<16, 0, -960, 960>> :> <<8497233, 15116929, 4718592>> @@
     <<16, 0, -960, 1920>> :> <<11716789, 15494883, 8912896>> @@
     <<16, 0, -960, 2880>> :> <<13454604, 11882588, 12582912>> @@
     <<16, 0, -480, -2880>> :> <<16790457, 1933800, 3145728>> @@
     <<16, 0, -480, -1920>> :> <<12922054, 14978867, 8912896>> @@
     <<16, 0, -480, -960>> :> <<7216412, 1295329, 11010048>> @@
     <<16, 0, -480, 0>> :> <<3447047, 8174522, 11272192>> @@
     <<16, 0, -480, 960>> :> <<7216412, 1295329, 11010048>> @@
     <<16, 0, -480, 1920>> :> <<12922054, 14978867, 8912896>>) @@
    (<<16, 0, -480, 2880>> :> <<16790457, 1933800, 3145728>> @@
     <<16, 0, 0, -2880>> :> <<19903919, 6070037, 6291456>> @@
     <<16, 0, 0, -1920>> :> <<13342849, 7025992, 9961472>> @@
     <<16, 0, 0, -960>> :> <<6672265, 390139, 8650752>> @@
     <<16, 0, 0, 0>> :> <<111195, 1346095, 5234688>> @@
     <<16, 0, 0, 960>> :> <<6672265, 390139, 8650752>> @@
     <<16, 0, 0, 1920>> :> <<13342849, 7025992, 9961472>> @@
     <<16, 0, 0, 2880>> :> <<19903919, 6070037, 6291456>> @@
     <<16, 0, 480, -2880>> :> <<16568066, 16018825, 9437184>> @@
     <<16, 0, 480, -1920>> :> <<12798702, 6120802, 8388608>> @@
     <<16, 0, 480, -960>> :> <<7093059, 9214480, 9699328>> @@
     <<16, 0, 480, 0>> :> <<3224657, 5482332, 655360>> @@
     <<16, 0, 480, 960>> :> <<7093059, 9214480, 9699328>> @@
     <<16, 0, 480, 1920>> :> <<12798702, 6120802, 8388608>> @@
     <<16, 0, 480, 2880>> :> <<16568066, 16018825, 9437184>> @@
     <<16, 0, 960, -2880>> :> <<13232214, 9190398, 3145728>> @@
     <<16, 0, 960, -1920>> :> <<11517880, 9076418, 14680064>> @@
     <<16, 0, 960, -960>> :> <<8298324, 8698464, 10485760>> @@
     <<16, 0, 960, 0>> :> <<6560509, 12310759, 6553600>> @@
     <<16, 0, 960, 960>> :> <<8298324, 8698464, 10485760>>) @@
    (<<16, 0, 960, 1920>> :> <<11517880, 9076418, 14680064>> @@
     <<16, 0, 960, 2880>> :> <<13232214, 9190398, 3145728>> @@
     <<16, 0, 1440, -2880>> :> <<9896362, 2361970, 12582912>> @@
     <<16, 0, 1440, -1920>> :> <<9896362, 2361970, 12582912>> @@
     <<16, 0, 1440, -960>> :> <<9896362, 2361970, 12582912>> @@
     <<16, 0, 1440, 0>> :> <<9896362, 2361970, 12582912>> @@
     <<16, 0, 1440, 960>> :> <<9896362, 2361970, 12582912>> @@
     <<16, 0, 1440, 1920>> :> <<9896362, 2361970, 12582912>> @@
     <<16, 0, 1440, 2880>> :> <<9896362, 2361970, 12582912>> @@
     <<16, 0, 0, 480>> :> <<3337532, 11637078, 12320768>> @@
     <<16, 0, 160, 800>> :> <<5616357, 6888985, 5505024>> @@
     <<16, 0, 8, 0>> :> <<55597, 9061655, 11005952>> @@
     <<16, 0, 0, 720>> :> <<5004748, 14631904, 16515072>> @@
     <<16, 0, 168, 804>> :> <<5650461, 10601467, 9175040>> @@
     <<16, 0, 720, 1440>> :> <<9928932, 7076309, 15728640>> @@
     <<16, 0, -480, -2400>> :> <<15494143, 3322671, 12058624>> @@
     <<16, 0, 0, 240>> :> <<1671543, 11948243, 11927552>> @@
     <<16, 0, 480, 480>> :> <<4520971, 4093460, 7602176>> @@
     <<16, 0, -960, 2160>> :> <<12412723, 8650325, 15204352>> @@
     <<16, 0, 160, 960>> :> <<6705790, 16193614, 524288>>) @@
    (<<16, 0, 16, 0>> :> <<0, 0, 0>> @@
     <<16, 0, 0, 16>> :> <<157249, 10040728, 4079616>> @@
     <<16, 0, 0, 32>> :> <<248629, 11043908, 9986048>> @@
     <<16, 0, 16, 16>> :> <<111178, 2420187, 5992448>> @@
     <<16, 0, 0, 160>> :> <<1117440, 7314382, 10944512>> @@
     <<16, 0, 160, 0>> :> <<1000755, 12114857, 13565952>> @@
     <<16, 0, 160, 160>> :> <<1491297, 6877325, 3932160>> @@
     <<16, 0, 720, 720>> :> <<6581104, 4449143, 1310720>> @@
     <<16, 0, -720, -1440>> :> <<10086182, 339822, 3145728>> @@
     <<16, 0, 720, -1440>> :> <<9928932, 7076309, 15728640>> @@
     <<16, 0, -160, -960>> :> <<6750156, 1956716, 15728640>> @@
     <<16, 0, 0, 1440>> :> <<10007557, 3708066, 1048576>> @@
     <<16, 0, 0, -1440>> :> <<10007557, 3708066, 1048576>> @@
     <<16, 0, 1, 1>> :> <<104476, 12788960, 16556032>> @@
     <<0, 16, -1440, -2880>> :> <<10007557, 3708066, 1048576>> @@
     <<0, 16, -1440, -1920>> :> <<10007557, 3708066, 1048576>> @@
     <<0, 16, -1440, -960>> :> <<10007557, 3708066, 1048576>> @@
     <<0, 16, -1440, 0>> :> <<10007557, 3708066, 1048576>> @@
     <<0, 16, -1440, 960>> :> <<10007557, 3708066, 1048576>> @@
     <<0, 16, -1440, 1920>> :> <<10007557, 3708066, 1048576>>) @@
    (<<0, 16, -1440, 2880>> :> <<10007557, 3708066, 1048576>> @@
     <<0, 16, -960, -2880>> :> <<13342849, 7025992, 10485760>> @@
     <<0, 16, -960, -1920>> :> <<11666910, 7336242, 8912896>> @@
     <<0, 16, -960, -960>> :> <<8447655, 1017950, 1048576>> @@
     <<0, 16, -960, 0>> :> <<6672265, 390139, 8650752>> @@
     <<0, 16, -960, 960>> :> <<8348204, 79889, 9961472>> @@
     <<0, 16, -960, 1920>> :> <<11567459, 6398182, 2097152>> @@
     <<0, 16, -960, 2880>> :> <<13342849, 7025992, 10485760>> @@
     <<0, 16, -480, -2880>> :> <<16677581, 12556269, 8912896>> @@
     <<0, 16, -480, -1920>> :> <<12953075, 6057529, 524288>> @@
     <<0, 16, -480, -960>> :> <<7247073, 16560389, 5242880>> @@
     <<0, 16, -480, 0>> :> <<3337532, 11637078, 12320768>> @@
     <<0, 16, -480, 960>> :> <<7062039, 1358603, 2621440>> @@
     <<0, 16, -480, 1920>> :> <<12768040, 7632958, 14680064>> @@
     <<0, 16, -480, 2880>> :> <<16677581, 12556269, 8912896>> @@
     <<0, 16, 0, -2880>> :> <<19903919, 6070037, 6291456>> @@
     <<0, 16, 0, -1920>> :> <<13454604, 11882588, 12058624>> @@
     <<0, 16, 0, -960>> :> <<6782899, 15002950, 524288>> @@
     <<0, 16, 0, 0>> :> <<111195, 1346095, 5234688>> @@
     <<0, 16, 0, 960>> :> <<6560509, 12310759, 6553600>>) @@
    (<<0, 16, 0, 1920>> :> <<13232214, 9190398, 2097152>> @@
     <<0, 16, 0, 2880>> :> <<19903919, 6070037, 6291456>> @@
     <<0, 16, 480, -2880>> :> <<16677581, 12556269, 8912896>> @@
     <<0, 16, 480, -1920>> :> <<12953075, 6057529, 524288>> @@
     <<0, 16, 480, -960>> :> <<7247073, 16560389, 5242880>> @@
     <<0, 16, 480, 0>> :> <<3337532, 11637078, 12320768>> @@
     <<0, 16, 480, 960>> :> <<7062039, 1358603, 2621440>> @@
     <<0, 16, 480, 1920>> :> <<12768040, 7632958, 14680064>> @@
     <<0, 16, 480, 2880>> :> <<16677581, 12556269, 8912896>> @@
     <<0, 16, 960, -2880>> :> <<13342849, 7025992, 10485760>> @@
     <<0, 16, 960, -1920>> :> <<11666910, 7336242, 8912896>> @@
     <<0, 16, 960, -960>> :> <<8447655, 1017950, 1048576>> @@
     <<0, 16, 960, 0>> :> <<6672265, 390139, 8650752>> @@
     <<0, 16, 960, 960>> :> <<8348204, 79889, 9961472>> @@
     <<0, 16, 960, 1920>> :> <<11567459, 6398182, 2097152>> @@
     <<0, 16, 960, 2880>> :> <<13342849, 7025992, 10485760>> @@
     <<0, 16, 1440, -2880>> :> <<10007557, 3708066, 1048576>> @@
     <<0, 16, 1440, -1920>> :> <<10007557, 3708066, 1048576>> @@
     <<0, 16, 1440, -960>> :> <<10007557, 3708066, 1048576>> @@
     <<0, 16, 1440, 0>> :> <<10007557, 3708066, 1048576>>) @@
    (<<0, 16, 1440, 960>> :> <<10007557, 3708066, 1048576>> @@
     <<0, 16, 1440, 1920>> :> <<10007557, 3708066, 1048576>> @@
     <<0, 16, 1440, 2880>> :> <<10007557, 3708066, 1048576>> @@
     <<0, 16, 0, 480>> :> <<3224657, 5482332, 655360>> @@
     <<0, 16, 160, 800>> :> <<5532222, 537931, 11010048>> @@
     <<0, 16, 8, 0>> :> <<124318, 10346694, 7720960>> @@
     <<0, 16, 0, 720>> :> <<4892583, 8896545, 12058624>> @@
     <<0, 16, 168, 804>> :> <<5567720, 7532826, 4718592>> @@
     <<0, 16, 720, 1440>> :> <<9928932, 7076309, 16252928>> @@
     <<0, 16, -480, -2400>> :> <<15482723, 5845180, 11010048>> @@
     <<0, 16, 0, 240>> :> <<1556731, 2068118, 6160384>> @@
     <<0, 16, 480, 480>> :> <<4532391, 1570951, 8388608>> @@
     <<0, 16, -960, 2160>> :> <<12267490, 13451605, 6815744>> @@
     <<0, 16, 160, 960>> :> <<6618509, 2846019, 8650752>> @@
     <<0, 16, 16, 0>> :> <<157249, 10040728, 4079616>> @@
     <<0, 16, 0, 16>> :> <<0, 0, 0>> @@
     <<0, 16, 0, 32>> :> <<111195, 1346095, 5234688>> @@
     <<0, 16, 16, 16>> :> <<111195, 1346095, 5234688>> @@
     <<0, 16, 0, 160>> :> <<1000755, 12114857, 13565952>> @@
     <<0, 16, 160, 0>> :> <<1117440, 7314382, 10944512>>) @@
    (<<0, 16, 160, 160>> :> <<1492561, 9083453, 6684672>> @@
     <<0, 16, 720, 720>> :> <<6607884, 2808149, 16515072>> @@
     <<0, 16, -720, -1440>> :> <<10086182, 339822, 3145728>> @@
     <<0, 16, 720, -1440>> :> <<10086182, 339822, 3145728>> @@
     <<0, 16, -160, -960>> :> <<6836427, 7064383, 8912896>> @@
     <<0, 16, 0, 1440>> :> <<9896362, 2361970, 12582912>> @@
     <<0, 16, 0, -1440>> :> <<10118752, 5054161, 6815744>> @@
     <<0, 16, 1, 1>> :> <<104476, 12862791, 1310720>> @@
     <<0, 32, -1440, -2880>> :> <<10007557, 3708066, 1048576>> @@
     <<0, 32, -1440, -1920>> :> <<10007557, 3708066, 1048576>> @@
     <<0, 32, -1440, -960>> :> <<10007557, 3708066, 1048576>> @@
     <<0, 32, -1440, 0>> :> <<10007557, 3708066, 1048576>> @@
     <<0, 32, -1440, 960>> :> <<10007557, 3708066, 1048576>> @@
     <<0, 32, -1440, 1920>> :> <<10007557, 3708066, 1048576>> @@
     <<0, 32, -1440, 2880>> :> <<10007557, 3708066, 1048576>> @@
     <<0, 32, -960, -2880>> :> <<13341169, 2218502, 16252928>> @@
     <<0, 32, -960, -1920>> :> <<11716020, 873243, 13107200>> @@
     <<0, 32, -960, -960>> :> <<8497967, 7010350, 5767168>> @@
     <<0, 32, -960, 0>> :> <<6673945, 5197629, 3407872>> @@
     <<0, 32, -960, 960>> :> <<8299094, 6542888, 5767168>>) @@
    (<<0, 32, -960, 1920>> :> <<11517147, 405781, 14155776>> @@
     <<0, 32, -960, 2880>> :> <<13341169, 2218502, 16252928>> @@
     <<0, 32, -480, -2880>> :> <<16672545, 16700787, 7340032>> @@
     <<0, 32, -480, -1920>> :> <<13045147, 7751359, 4718592>> @@
     <<0, 32, -480, -960>> :> <<7340007, 7096425, 11272192>> @@
     <<0, 32, -480, 0>> :> <<3342568, 7492560, 12845056>> @@
     <<0, 32, -480, 960>> :> <<6969966, 16441988, 14417920>> @@
     <<0, 32, -480, 1920>> :> <<12675107, 319706, 7864320>> @@
     <<0, 32, -480, 2880>> :> <<16672545, 16700787, 7340032>> @@
     <<0, 32, 0, -2880>> :> <<19792724, 4723941, 15728640>> @@
     <<0, 32, 0, -1920>> :> <<13565799, 13228684, 1048576>> @@
     <<0, 32, 0, -960>> :> <<6894094, 16349045, 5767168>> @@
     <<0, 32, 0, 0>> :> <<222390, 2692190, 10469376>> @@
     <<0, 32, 0, 960>> :> <<6449314, 10964664, 1310720>> @@
     <<0, 32, 0, 1920>> :> <<13121019, 7844302, 13107200>> @@
     <<0, 32, 0, 2880>> :> <<19792724, 4723941, 15728640>> @@
     <<0, 32, 480, -2880>> :> <<16672545, 16700787, 7340032>> @@
     <<0, 32, 480, -1920>> :> <<13045147, 7751359, 4718592>> @@
     <<0, 32, 480, -960>> :> <<7340007, 7096425, 11272192>> @@
     <<0, 32, 480, 0>> :> <<3342568, 7492560, 12845056>>) @@
    (<<0, 32, 480, 960>> :> <<6969966, 16441988, 14417920>> @@
     <<0, 32, 480, 1920>> :> <<12675107, 319706, 7864320>> @@
     <<0, 32, 480, 2880>> :> <<16672545, 16700787, 7340032>> @@
     <<0, 32, 960, -2880>> :> <<13341169, 2218502, 16252928>> @@
     <<0, 32, 960, -1920>> :> <<11716020, 873243, 13107200>> @@
     <<0, 32, 960, -960>> :> <<8497967, 7010350, 5767168>> @@
     <<0, 32, 960, 0>> :> <<6673945, 5197629, 3407872>> @@
     <<0, 32, 960, 960>> :> <<8299094, 6542888, 5767168>> @@
     <<0, 32, 960, 1920>> :> <<11517147, 405781, 14155776>> @@
     <<0, 32, 960, 2880>> :> <<13341169, 2218502, 16252928>> @@
     <<0, 32, 1440, -2880>> :> <<10007557, 3708066, 1048576>> @@
     <<0, 32, 1440, -1920>> :> <<10007557, 3708066, 1048576>> @@
     <<0, 32, 1440, -960>> :> <<10007557, 3708066, 1048576>> @@
     <<0, 32, 1440, 0>> :> <<10007557, 3708066, 1048576>> @@
     <<0, 32, 1440, 960>> :> <<10007557, 3708066, 1048576>> @@
     <<0, 32, 1440, 1920>> :> <<10007557, 3708066, 1048576>> @@
     <<0, 32, 1440, 2880>> :> <<10007557, 3708066, 1048576>> @@
     <<0, 32, 0, 480>> :> <<3113462, 4136236, 12320768>> @@
     <<0, 32, 160, 800>> :> <<5423986, 5961589, 15990784>> @@
     <<0, 32, 8, 0>> :> <<229231, 13283992, 15532032>>) @@
    (<<0, 32, 0, 720>> :> <<4781388, 7550450, 6815744>> @@
     <<0, 32, 168, 804>> :> <<5459757, 10935500, 6553600>> @@
     <<0, 32, 720, 1440>> :> <<9850319, 10087837, 9437184>> @@
     <<0, 32, -480, -2400>> :> <<15553557, 14401474, 3670016>> @@
     <<0, 32, 0, 240>> :> <<1445536, 722023, 917504>> @@
     <<0, 32, 480, 480>> :> <<4461556, 9791873, 16515072>> @@
     <<0, 32, -960, 2160>> :> <<12224538, 2981972, 1048576>> @@
     <<0, 32, 160, 960>> :> <<6509618, 4804484, 6291456>> @@
     <<0, 32, 16, 0>> :> <<248629, 11043908, 9986048>> @@
     <<0, 32, 0, 16>> :> <<111195, 1346095, 5234688>> @@
     <<0, 32, 0, 32>> :> <<0, 0, 0>> @@
     <<0, 32, 16, 16>> :> <<157249, 10040728, 4079616>> @@
     <<0, 32, 0, 160>> :> <<889560, 10768762, 8323072>> @@
     <<0, 32, 160, 0>> :> <<1133749, 14249801, 2293760>> @@
     <<0, 32, 160, 160>> :> <<1421158, 5426062, 1441792>> @@
     <<0, 32, 720, 720>> :> <<6544836, 15663768, 7864320>> @@
     <<0, 32, -720, -1440>> :> <<10164794, 14105510, 8912896>> @@
     <<0, 32, 720, -1440>> :> <<10164794, 14105510, 8912896>> @@
     <<0, 32, -160, -960>> :> <<6945449, 10124061, 2621440>> @@
     <<0, 32, 0, 1440>> :> <<9785167, 1015875, 7340032>>) @@
    (<<0, 32, 0, -1440>> :> <<10229947, 6400256, 11534336>> @@
     <<0, 32, 1, 1>> :> <<215552, 8185859, 15245312>> @@
     <<16, 16, -1440, -2880>> :> <<10118752, 5054161, 6815744>> @@
     <<16, 16, -1440, -1920>> :> <<10118752, 5054161, 6815744>> @@
     <<16, 16, -1440, -960>> :> <<10118752, 5054161, 6815744>> @@
     <<16, 16, -1440, 0>> :> <<10118752, 5054161, 6815744>> @@
     <<16, 16, -1440, 960>> :> <<10118752, 5054161, 6815744>> @@
     <<16, 16, -1440, 1920>> :> <<10118752, 5054161, 6815744>> @@
     <<16, 16, -1440, 2880>> :> <<10118752, 5054161, 6815744>> @@
     <<16, 16, -960, -2880>> :> <<13454038, 13365827, 12582912>> @@
     <<16, 16, -960, -1920>> :> <<11766517, 4757347, 0>> @@
     <<16, 16, -960, -960>> :> <<8546961, 3901280, 11010048>> @@
     <<16, 16, -960, 0>> :> <<6783454, 8638559, 16515072>> @@
     <<16, 16, -960, 960>> :> <<8447912, 10418009, 13107200>> @@
     <<16, 16, -960, 1920>> :> <<11666667, 245251, 524288>> @@
     <<16, 16, -960, 2880>> :> <<13454038, 13365827, 12582912>> @@
     <<16, 16, -480, -2880>> :> <<16788724, 7952389, 12582912>> @@
     <<16, 16, -480, -1920>> :> <<13014858, 156694, 12582912>> @@
     <<16, 16, -480, -960>> :> <<7308641, 8876289, 5505024>> @@
     <<16, 16, -480, 0>> :> <<3448678, 8212379, 4849664>>) @@
    (<<16, 16, -480, 960>> :> <<7124487, 1556283, 8388608>> @@
     <<16, 16, -480, 1920>> :> <<12828982, 10975354, 14155776>> @@
     <<16, 16, -480, 2880>> :> <<16788724, 7952389, 12582912>> @@
     <<16, 16, 0, -2880>> :> <<19857864, 14152620, 4194304>> @@
     <<16, 16, 0, -1920>> :> <<13454021, 11540996, 7864320>> @@
     <<16, 16, 0, -960>> :> <<6783437, 12539483, 15466496>> @@
     <<16, 16, 0, 0>> :> <<157249, 10040728, 4079616>> @@
     <<16, 16, 0, 960>> :> <<6561092, 12652351, 10223616>> @@
     <<16, 16, 0, 1920>> :> <<13231676, 11653864, 3145728>> @@
     <<16, 16, 0, 2880>> :> <<19857864, 14152620, 4194304>> @@
     <<16, 16, 480, -2880>> :> <<16566435, 15980968, 15204352>> @@
     <<16, 16, 480, -1920>> :> <<12890627, 5859848, 11010048>> @@
     <<16, 16, 480, -960>> :> <<7186131, 13217993, 5505024>> @@
     <<16, 16, 480, 0>> :> <<3226389, 16240958, 7471104>> @@
     <<16, 16, 480, 960>> :> <<7000256, 7259437, 6553600>> @@
     <<16, 16, 480, 1920>> :> <<12706472, 15317058, 13631488>> @@
     <<16, 16, 480, 2880>> :> <<16566435, 15980968, 15204352>> @@
     <<16, 16, 960, -2880>> :> <<13231659, 15554788, 2621440>> @@
     <<16, 16, 960, -1920>> :> <<11567201, 13775338, 5242880>> @@
     <<16, 16, 960, -960>> :> <<8348447, 7170881, 1572864>>) @@
    (<<16, 16, 960, 0>> :> <<6561075, 10827520, 6815744>> @@
     <<16, 16, 960, 960>> :> <<8248597, 2658785, 2621440>> @@
     <<16, 16, 960, 1920>> :> <<11468153, 3514851, 7864320>> @@
     <<16, 16, 960, 2880>> :> <<13231659, 15554788, 2621440>> @@
     <<16, 16, 1440, -2880>> :> <<9896362, 2361970, 12582912>> @@
     <<16, 16, 1440, -1920>> :> <<9896362, 2361970, 12582912>> @@
     <<16, 16, 1440, -960>> :> <<9896362, 2361970, 12582912>> @@
     <<16, 16, 1440, 0>> :> <<9896362, 2361970, 12582912>> @@
     <<16, 16, 1440, 960>> :> <<9896362, 2361970, 12582912>> @@
     <<16, 16, 1440, 1920>> :> <<9896362, 2361970, 12582912>> @@
     <<16, 16, 1440, 2880>> :> <<9896362, 2361970, 12582912>> @@
     <<16, 16, 0, 480>> :> <<3226407, 7125752, 7340032>> @@
     <<16, 16, 160, 800>> :> <<5507706, 14471807, 14680064>> @@
     <<16, 16, 8, 0>> :> <<124311, 714634, 13864960>> @@
     <<16, 16, 0, 720>> :> <<4893588, 4363145, 12845056>> @@
     <<16, 16, 168, 804>> :> <<5542065, 16168821, 15204352>> @@
     <<16, 16, 720, 1440>> :> <<9850307, 10452206, 4718592>> @@
     <<16, 16, -480, -2400>> :> <<15567403, 4049286, 3670016>> @@
     <<16, 16, 0, 240>> :> <<1560618, 2864775, 6291456>> @@
     <<16, 16, 480, 480>> :> <<4447711, 3366845, 15728640>>) @@
    (<<16, 16, -960, 2160>> :> <<12370127, 13488455, 2097152>> @@
     <<16, 16, 160, 960>> :> <<6596654, 9872322, 4194304>> @@
     <<16, 16, 16, 0>> :> <<111178, 2420187, 5992448>> @@
     <<16, 16, 0, 16>> :> <<111195, 1346095, 5234688>> @@
     <<16, 16, 0, 32>> :> <<157249, 10040728, 4079616>> @@
     <<16, 16, 16, 16>> :> <<0, 0, 0>> @@
     <<16, 16, 0, 160>> :> <<1006863, 11647523, 10289152>> @@
     <<16, 16, 160, 0>> :> <<1006845, 151358, 14155776>> @@
     <<16, 16, 160, 160>> :> <<1411278, 2227783, 13434880>> @@
     <<16, 16, 720, 720>> :> <<6516750, 12423961, 3145728>> @@
     <<16, 16, -720, -1440>> :> <<10164806, 13741141, 14680064>> @@
     <<16, 16, 720, -1440>> :> <<10007545, 4133640, 8388608>> @@
     <<16, 16, -160, -960>> :> <<6858907, 5290168, 9961472>> @@
     <<16, 16, 0, 1440>> :> <<9896379, 1309514, 15728640>> @@
     <<16, 16, 0, -1440>> :> <<10118735, 6106617, 3670016>> @@
     <<16, 16, 1, 1>> :> <<147421, 4195483, 11296768>> @@
     <<0, 160, -1440, -2880>> :> <<10007557, 3708066, 1048576>> @@
     <<0, 160, -1440, -1920>> :> <<10007557, 3708066, 1048576>> @@
     <<0, 160, -1440, -960>> :> <<10007557, 3708066, 1048576>> @@
     <<0, 160, -1440, 0>> :> <<10007557, 3708066, 1048576>>) @@
    (<<0, 160, -1440, 960>> :> <<10007557, 3708066, 1048576>> @@
     <<0, 160, -1440, 1920>> :> <<10007557, 3708066, 1048576>> @@
     <<0, 160, -1440, 2880>> :> <<10007557, 3708066, 1048576>> @@
     <<0, 160, -960, -2880>> :> <<13287668, 80208, 5767168>> @@
     <<0, 160, -960, -1920>> :> <<12092157, 12940336, 6291456>> @@
     <<0, 160, -960, -960>> :> <<8912669, 1477140, 15728640>> @@
     <<0, 160, -960, 0>> :> <<6727446, 7335923, 13369344>> @@
     <<0, 160, -960, 960>> :> <<7922956, 11253011, 12582912>> @@
     <<0, 160, -960, 1920>> :> <<11102445, 5938991, 3145728>> @@
     <<0, 160, -960, 2880>> :> <<13287668, 80208, 5767168>> @@
     <<0, 160, -480, -2880>> :> <<16515254, 16357057, 6815744>> @@
     <<0, 160, -480, -1920>> :> <<13768824, 12859526, 6815744>> @@
     <<0, 160, -480, -960>> :> <<8091733, 1473448, 12845056>> @@
     <<0, 160, -480, 0>> :> <<3499859, 7836290, 13238272>> @@
     <<0, 160, -480, 960>> :> <<6246289, 11333821, 11534336>> @@
     <<0, 160, -480, 1920>> :> <<11923381, 5942683, 6291456>> @@
     <<0, 160, -480, 2880>> :> <<16515254, 16357057, 6815744>> @@
     <<0, 160, 0, -2880>> :> <<18903163, 10732395, 1048576>> @@
     <<0, 160, 0, -1920>> :> <<14455360, 7220230, 8912896>> @@
     <<0, 160, 0, -960>> :> <<7783655, 10340591, 13893632>>) @@
    (<<0, 160, 0, 0>> :> <<1111950, 13460953, 2031616>> @@
     <<0, 160, 0, 960>> :> <<5559754, 195901, 9961472>> @@
     <<0, 160, 0, 1920>> :> <<12231458, 13852756, 5242880>> @@
     <<0, 160, 0, 2880>> :> <<18903163, 10732395, 1048576>> @@
     <<0, 160, 480, -2880>> :> <<16515254, 16357057, 6815744>> @@
     <<0, 160, 480, -1920>> :> <<13768824, 12859526, 6815744>> @@
     <<0, 160, 480, -960>> :> <<8091733, 1473448, 12845056>> @@
     <<0, 160, 480, 0>> :> <<3499859, 7836290, 13238272>> @@
     <<0, 160, 480, 960>> :> <<6246289, 11333821, 11534336>> @@
     <<0, 160, 480, 1920>> :> <<11923381, 5942683, 6291456>> @@
     <<0, 160, 480, 2880>> :> <<16515254, 16357057, 6815744>> @@
     <<0, 160, 960, -2880>> :> <<13287668, 80208, 5767168>> @@
     <<0, 160, 960, -1920>> :> <<12092157, 12940336, 6291456>> @@
     <<0, 160, 960, -960>> :> <<8912669, 1477140, 15728640>> @@
     <<0, 160, 960, 0>> :> <<6727446, 7335923, 13369344>> @@
     <<0, 160, 960, 960>> :> <<7922956, 11253011, 12582912>> @@
     <<0, 160, 960, 1920>> :> <<11102445, 5938991, 3145728>> @@
     <<0, 160, 960, 2880>> :> <<13287668, 80208, 5767168>> @@
     <<0, 160, 1440, -2880>> :> <<10007557, 3708066, 1048576>> @@
     <<0, 160, 1440, -1920>> :> <<10007557, 3708066, 1048576>>) @@
    (<<0, 160, 1440, -960>> :> <<10007557, 3708066, 1048576>> @@
     <<0, 160, 1440, 0>> :> <<10007557, 3708066, 1048576>> @@
     <<0, 160, 1440, 960>> :> <<10007557, 3708066, 1048576>> @@
     <<0, 160, 1440, 1920>> :> <<10007557, 3708066, 1048576>> @@
     <<0, 160, 1440, 2880>> :> <<10007557, 3708066, 1048576>> @@
     <<0, 160, 0, 480>> :> <<2223901, 10144690, 3932160>> @@
     <<0, 160, 160, 800>> :> <<4561940, 11135655, 14680064>> @@
     <<0, 160, 8, 0>> :> <<1113325, 12559996, 11206656>> @@
     <<0, 160, 0, 720>> :> <<3891827, 13558903, 15335424>> @@
     <<0, 160, 168, 804>> :> <<4600190, 3085707, 10747904>> @@
     <<0, 160, 720, 1440>> :> <<9223295, 14417538, 2097152>> @@
     <<0, 160, -480, -2400>> :> <<16064203, 6320738, 2621440>> @@
     <<0, 160, 0, 240>> :> <<555975, 6730476, 9371648>> @@
     <<0, 160, 480, 480>> :> <<3950911, 1095394, 0>> @@
     <<0, 160, -960, 2160>> :> <<11860708, 11842757, 8388608>> @@
     <<0, 160, 160, 960>> :> <<5640542, 12988317, 13369344>> @@
     <<0, 160, 16, 0>> :> <<1117440, 7314382, 10944512>> @@
     <<0, 160, 0, 16>> :> <<1000755, 12114857, 13565952>> @@
     <<0, 160, 0, 32>> :> <<889560, 10768762, 8323072>> @@
     <<0, 160, 16, 16>> :> <<1006863, 11647523, 10289152>>) @@
    (<<0, 160, 0, 160>> :> <<0, 0, 0>> @@
     <<0, 160, 160, 0>> :> <<1568522, 12135487, 14548992>> @@
     <<0, 160, 160, 160>> :> <<1111950, 13460953, 2031616>> @@
     <<0, 160, 720, 720>> :> <<6071667, 3944001, 524288>> @@
     <<0, 160, -720, -1440>> :> <<10791818, 9775810, 524288>> @@
     <<0, 160, 720, -1440>> :> <<10791818, 9775810, 524288>> @@
     <<0, 160, -160, -960>> :> <<7818849, 1221397, 8650752>> @@
     <<0, 160, 0, 1440>> :> <<8895606, 7024328, 15728640>> @@
     <<0, 160, 0, -1440>> :> <<11119508, 391803, 3145728>> @@
     <<0, 160, 1, 1>> :> <<1105022, 12489040, 15007744>> @@
     <<160, 0, -1440, -2880>> :> <<11119508, 391803, 3670016>> @@
     <<160, 0, -1440, -1920>> :> <<11119508, 391803, 3145728>> @@
     <<160, 0, -1440, -960>> :> <<11119508, 391803, 3145728>> @@
     <<160, 0, -1440, 0>> :> <<11119508, 391803, 3145728>> @@
     <<160, 0, -1440, 960>> :> <<11119508, 391803, 3145728>> @@
     <<160, 0, -1440, 1920>> :> <<11119508, 391803, 3145728>> @@
     <<160, 0, -1440, 2880>> :> <<11119508, 391803, 3670016>> @@
     <<160, 0, -960, -2880>> :> <<14455360, 7220230, 9437184>> @@
     <<160, 0, -960, -1920>> :> <<12605619, 12022025, 13631488>> @@
     <<160, 0, -960, -960>> :> <<9396160, 10003534, 12058624>>) @@
    (<<160, 0, -960, 0>> :> <<7783655, 10340591, 13893632>> @@
     <<160, 0, -960, 960>> :> <<9396160, 10003534, 12058624>> @@
     <<160, 0, -960, 1920>> :> <<12605619, 12022025, 13631488>> @@
     <<160, 0, -960, 2880>> :> <<14455360, 7220230, 9437184>> @@
     <<160, 0, -480, -2880>> :> <<17791212, 14048657, 14680064>> @@
     <<160, 0, -480, -1920>> :> <<13441384, 15701923, 12058624>> @@
     <<160, 0, -480, -960>> :> <<7799987, 5221839, 9961472>> @@
     <<160, 0, -480, 0>> :> <<4447803, 3512164, 8126464>> @@
     <<160, 0, -480, 960>> :> <<7799987, 5221839, 9961472>> @@
     <<160, 0, -480, 1920>> :> <<13441384, 15701923, 12058624>> @@
     <<160, 0, -480, 2880>> :> <<17791212, 14048657, 14680064>> @@
     <<160, 0, 0, -2880>> :> <<18903163, 10732395, 1048576>> @@
     <<160, 0, 0, -1920>> :> <<13287668, 80208, 5242880>> @@
     <<160, 0, 0, -960>> :> <<6727446, 7335923, 13369344>> @@
     <<160, 0, 0, 0>> :> <<1111950, 13460953, 2031616>> @@
     <<160, 0, 0, 960>> :> <<6727446, 7335923, 13369344>> @@
     <<160, 0, 0, 1920>> :> <<13287668, 80208, 5242880>> @@
     <<160, 0, 0, 2880>> :> <<18903163, 10732395, 1048576>> @@
     <<160, 0, 480, -2880>> :> <<15567311, 3903967, 12058624>> @@
     <<160, 0, 480, -1920>> :> <<12215127, 2194292, 8388608>>) @@
    (<<160, 0, 480, -960>> :> <<6573729, 8491424, 6553600>> @@
     <<160, 0, 480, 0>> :> <<2223901, 10144690, 3932160>> @@
     <<160, 0, 480, 960>> :> <<6573729, 8491424, 6553600>> @@
     <<160, 0, 480, 1920>> :> <<12215127, 2194292, 8388608>> @@
     <<160, 0, 480, 2880>> :> <<15567311, 3903967, 12058624>> @@
     <<160, 0, 960, -2880>> :> <<12231458, 13852756, 5242880>> @@
     <<160, 0, 960, -1920>> :> <<10618953, 14189813, 6815744>> @@
     <<160, 0, 960, -960>> :> <<7409494, 12171322, 4980736>> @@
     <<160, 0, 960, 0>> :> <<5559754, 195901, 9961472>> @@
     <<160, 0, 960, 960>> :> <<7409494, 12171322, 4980736>> @@
     <<160, 0, 960, 1920>> :> <<10618953, 14189813, 6815744>> @@
     <<160, 0, 960, 2880>> :> <<12231458, 13852756, 5242880>> @@
     <<160, 0, 1440, -2880>> :> <<8895606, 7024328, 15728640>> @@
     <<160, 0, 1440, -1920>> :> <<8895606, 7024328, 15728640>> @@
     <<160, 0, 1440, -960>> :> <<8895606, 7024328, 15728640>> @@
     <<160, 0, 1440, 0>> :> <<8895606, 7024328, 15728640>> @@
     <<160, 0, 1440, 960>> :> <<8895606, 7024328, 15728640>> @@
     <<160, 0, 1440, 1920>> :> <<8895606, 7024328, 15728640>> @@
     <<160, 0, 1440, 2880>> :> <<8895606, 7024328, 15728640>> @@
     <<160, 0, 0, 480>> :> <<3499859, 7836290, 12976128>>) @@
    (<<160, 0, 160, 800>> :> <<5469634, 1496623, 786432>> @@
     <<160, 0, 8, 0>> :> <<1056353, 4399297, 7733248>> @@
     <<160, 0, 0, 720>> :> <<5099847, 14824321, 2621440>> @@
     <<160, 0, 168, 804>> :> <<5492614, 9015069, 1048576>> @@
     <<160, 0, 720, 1440>> :> <<9223295, 14417538, 2097152>> @@
     <<160, 0, -480, -2400>> :> <<16193573, 2949403, 14680064>> @@
     <<160, 0, 0, 240>> :> <<1997492, 14570014, 14352384>> @@
     <<160, 0, 480, 480>> :> <<3821541, 4466728, 5898240>> @@
     <<160, 0, -960, 2160>> :> <<13332864, 3493951, 5242880>> @@
     <<160, 0, 160, 960>> :> <<6560221, 9521500, 8126464>> @@
     <<160, 0, 16, 0>> :> <<1000755, 12114857, 13565952>> @@
     <<160, 0, 0, 16>> :> <<1117440, 7314382, 10944512>> @@
     <<160, 0, 0, 32>> :> <<1133749, 14249801, 2293760>> @@
     <<160, 0, 16, 16>> :> <<1006845, 151358, 14155776>> @@
     <<160, 0, 0, 160>> :> <<1568522, 12135487, 14548992>> @@
     <<160, 0, 160, 0>> :> <<0, 0, 0>> @@
     <<160, 0, 160, 160>> :> <<1095015, 12366286, 3080192>> @@
     <<160, 0, 720, 720>> :> <<5785941, 9141859, 4718592>> @@
     <<160, 0, -720, -1440>> :> <<10791818, 9775810, 524288>> @@
     <<160, 0, 720, -1440>> :> <<9223295, 14417538, 2097152>>) @@
    (<<160, 0, -160, -960>> :> <<6999718, 15672581, 9175040>> @@
     <<160, 0, 0, 1440>> :> <<10007557, 3708066, 1048576>> @@
     <<160, 0, 0, -1440>> :> <<10007557, 3708066, 1048576>> @@
     <<160, 0, 1, 1>> :> <<1105022, 12419240, 10616832>> @@
     <<160, 160, -1440, -2880>> :> <<11119508, 391803, 3670016>> @@
     <<160, 160, -1440, -1920>> :> <<11119508, 391803, 3145728>> @@
     <<160, 160, -1440, -960>> :> <<11119508, 391803, 3145728>> @@
     <<160, 160, -1440, 0>> :> <<11119508, 391803, 3145728>> @@
     <<160, 160, -1440, 960>> :> <<11119508, 391803, 3145728>> @@
     <<160, 160, -1440, 1920>> :> <<11119508, 391803, 3145728>> @@
     <<160, 160, -1440, 2880>> :> <<11119508, 391803, 3670016>> @@
     <<160, 160, -960, -2880>> :> <<14393396, 15413682, 1048576>> @@
     <<160, 160, -960, -1920>> :> <<13102441, 3961711, 4194304>> @@
     <<160, 160, -960, -960>> :> <<9892692, 7863238, 5767168>> @@
     <<160, 160, -960, 0>> :> <<7834301, 5363889, 11534336>> @@
     <<160, 160, -960, 960>> :> <<8944228, 7158510, 0>> @@
     <<160, 160, -960, 1920>> :> <<12074686, 7822800, 6291456>> @@
     <<160, 160, -960, 2880>> :> <<14393396, 15413682, 1048576>> @@
     <<160, 160, -480, -2880>> :> <<17561210, 15250829, 5242880>> @@
     <<160, 160, -480, -1920>> :> <<14391174, 2010216, 9437184>>) @@
    (<<160, 160, -480, -960>> :> <<8692994, 7418860, 3145728>> @@
     <<160, 160, -480, 0>> :> <<4574728, 8139040, 14680064>> @@
     <<160, 160, -480, 960>> :> <<6952273, 8216887, 15990784>> @@
     <<160, 160, -480, 1920>> :> <<12480778, 5232957, 10485760>> @@
     <<160, 160, -480, 2880>> :> <<17561210, 15250829, 5242880>> @@
     <<160, 160, 0, -2880>> :> <<18446591, 12057860, 4194304>> @@
     <<160, 160, 0, -1920>> :> <<14374571, 11205030, 3670016>> @@
     <<160, 160, 0, -960>> :> <<7818849, 1221397, 8650752>> @@
     <<160, 160, 0, 0>> :> <<1568522, 12135487, 14548992>> @@
     <<160, 160, 0, 960>> :> <<5640542, 12988317, 13369344>> @@
     <<160, 160, 0, 1920>> :> <<12196265, 6194734, 9961472>> @@
     <<160, 160, 0, 2880>> :> <<18446591, 12057860, 4194304>> @@
     <<160, 160, 480, -2880>> :> <<15440385, 16054307, 6291456>> @@
     <<160, 160, 480, -1920>> :> <<13062840, 15976460, 2621440>> @@
     <<160, 160, 480, -960>> :> <<7534336, 2183174, 8388608>> @@
     <<160, 160, 480, 0>> :> <<2453903, 8942518, 14417920>> @@
     <<160, 160, 480, 960>> :> <<5623940, 5405915, 8650752>> @@
     <<160, 160, 480, 1920>> :> <<11322119, 16774487, 15728640>> @@
     <<160, 160, 480, 2880>> :> <<15440385, 16054307, 6291456>> @@
     <<160, 160, 960, -2880>> :> <<12180813, 2052242, 8388608>>) @@
    (<<160, 160, 960, -1920>> :> <<11070886, 257622, 2097152>> @@
     <<160, 160, 960, -960>> :> <<7940427, 16370547, 12845056>> @@
     <<160, 160, 960, 0>> :> <<5621717, 8779666, 1835008>> @@
     <<160, 160, 960, 960>> :> <<6912673, 3454420, 15204352>> @@
     <<160, 160, 960, 1920>> :> <<10122421, 16330109, 13107200>> @@
     <<160, 160, 960, 2880>> :> <<12180813, 2052242, 8388608>> @@
     <<160, 160, 1440, -2880>> :> <<8895606, 7024328, 15728640>> @@
     <<160, 160, 1440, -1920>> :> <<8895606, 7024328, 15728640>> @@
     <<160, 160, 1440, -960>> :> <<8895606, 7024328, 15728640>> @@
     <<160, 160, 1440, 0>> :> <<8895606, 7024328, 15728640>> @@
     <<160, 160, 1440, 960>> :> <<8895606, 7024328, 15728640>> @@
     <<160, 160, 1440, 1920>> :> <<8895606, 7024328, 15728640>> @@
     <<160, 160, 1440, 2880>> :> <<8895606, 7024328, 15728640>> @@
     <<160, 160, 0, 480>> :> <<2476174, 13939426, 12845056>> @@
     <<160, 160, 160, 800>> :> <<4377416, 4973337, 1572864>> @@
     <<160, 160, 8, 0>> :> <<1529397, 1732573, 2031616>> @@
     <<160, 160, 0, 720>> :> <<4027990, 9761653, 13369344>> @@
     <<160, 160, 168, 804>> :> <<4401499, 6080744, 6815744>> @@
     <<160, 160, 720, 1440>> :> <<8439081, 6629487, 14155776>> @@
     <<160, 160, -480, -2400>> :> <<16974507, 7115355, 7340032>>) @@
    (<<160, 160, 0, 240>> :> <<1241932, 10135021, 5767168>> @@
     <<160, 160, 480, 480>> :> <<3040607, 300776, 11665408>> @@
     <<160, 160, -960, 2160>> :> <<12859304, 611393, 7340032>> @@
     <<160, 160, 160, 960>> :> <<5469634, 1496623, 524288>> @@
     <<160, 160, 16, 0>> :> <<1491297, 6877325, 3932160>> @@
     <<160, 160, 0, 16>> :> <<1492561, 9083453, 6684672>> @@
     <<160, 160, 0, 32>> :> <<1421158, 5426062, 1441792>> @@
     <<160, 160, 16, 16>> :> <<1411278, 2227783, 13434880>> @@
     <<160, 160, 0, 160>> :> <<1111950, 13460953, 2031616>> @@
     <<160, 160, 160, 0>> :> <<1095015, 12366286, 3080192>> @@
     <<160, 160, 160, 160>> :> <<0, 0, 0>> @@
     <<160, 160, 720, 720>> :> <<5127736, 1777249, 8388608>> @@
     <<160, 160, -720, -1440>> :> <<11576033, 786644, 5242880>> @@
     <<160, 160, 720, -1440>> :> <<9995672, 9899200, 12058624>> @@
     <<160, 160, -160, -960>> :> <<8055981, 2746091, 9175040>> @@
     <<160, 160, 0, 1440>> :> <<8912669, 1477140, 15728640>> @@
     <<160, 160, 0, -1440>> :> <<11102445, 5938991, 3145728>> @@
     <<160, 160, 1, 1>> :> <<1558694, 11149323, 15728640>> @@
     <<720, 720, -1440, -2880>> :> <<15011335, 13950707, 2097152>> @@
     <<720, 720, -1440, -1920>> :> <<15011335, 13950707, 2097152>>) @@
    (<<720, 720, -1440, -960>> :> <<15011335, 13950707, 2097152>> @@
     <<720, 720, -1440, 0>> :> <<15011335, 13950707, 2097152>> @@
     <<720, 720, -1440, 960>> :> <<15011335, 13950707, 2097152>> @@
     <<720, 720, -1440, 1920>> :> <<15011335, 13950707, 2097152>> @@
     <<720, 720, -1440, 2880>> :> <<15011335, 13950707, 2097152>> @@
     <<720, 720, -960, -2880>> :> <<16633006, 4757114, 10485760>> @@
     <<720, 720, -960, -1920>> :> <<18072632, 4400949, 7340032>> @@
     <<720, 720, -960, -960>> :> <<14982317, 11598032, 6815744>> @@
     <<720, 720, -960, 0>> :> <<12370004, 3971045, 5767168>> @@
     <<720, 720, -960, 960>> :> <<11755078, 382339, 5767168>> @@
     <<720, 720, -960, 1920>> :> <<13498011, 5739171, 7864320>> @@
     <<720, 720, -960, 2880>> :> <<16633006, 4757114, 10485760>> @@
     <<720, 720, -480, -2880>> :> <<15774774, 1199996, 9437184>> @@
     <<720, 720, -480, -1920>> :> <<17893447, 5702286, 10485760>> @@
     <<720, 720, -480, -960>> :> <<13432396, 11023896, 2621440>> @@
     <<720, 720, -480, 0>> :> <<9500787, 329375, 8388608>> @@
     <<720, 720, -480, 960>> :> <<8476873, 1949870, 7340032>> @@
     <<720, 720, -480, 1920>> :> <<11258303, 3839617, 3145728>> @@
     <<720, 720, -480, 2880>> :> <<15774774, 1199996, 9437184>> @@
     <<720, 720, 0, -2880>> :> <<13343409, 10536493, 7340032>>) @@
    (<<720, 720, 0, -1920>> :> <<14797787, 9831954, 8912896>> @@
     <<720, 720, 0, -960>> :> <<11180141, 10975709, 14155776>> @@
     <<720, 720, 0, 0>> :> <<6671704, 13656854, 12320768>> @@
     <<720, 720, 0, 960>> :> <<5217326, 14361393, 10747904>> @@
     <<720, 720, 0, 1920>> :> <<8834972, 13217638, 6291456>> @@
     <<720, 720, 0, 2880>> :> <<13343409, 10536493, 7340032>> @@
     <<720, 720, 480, -2880>> :> <<10514327, 7086756, 11534336>> @@
     <<720, 720, 480, -1920>> :> <<11538241, 5466261, 12582912>> @@
     <<720, 720, 480, -960>> :> <<8756811, 3576514, 16252928>> @@
     <<720, 720, 480, 0>> :> <<4240340, 6216135, 9961472>> @@
     <<720, 720, 480, 960>> :> <<2121667, 1713845, 9043968>> @@
     <<720, 720, 480, 1920>> :> <<6582717, 13169451, 16515072>> @@
     <<720, 720, 480, 2880>> :> <<10514327, 7086756, 11534336>> @@
     <<720, 720, 960, -2880>> :> <<7645110, 3445086, 13631488>> @@
     <<720, 720, 960, -1920>> :> <<8260036, 7033792, 14417920>> @@
     <<720, 720, 960, -960>> :> <<6517103, 1676960, 11534336>> @@
     <<720, 720, 960, 0>> :> <<3382108, 2659017, 9437184>> @@
     <<720, 720, 960, 960>> :> <<1942482, 3015182, 13828096>> @@
     <<720, 720, 960, 1920>> :> <<5032796, 12595315, 13631488>> @@
     <<720, 720, 960, 2880>> :> <<7645110, 3445086, 13631488>>) @@
    (<<720, 720, 1440, -2880>> :> <<5003778, 10242641, 1048576>> @@
     <<720, 720, 1440, -1920>> :> <<5003778, 10242641, 1048576>> @@
     <<720, 720, 1440, -960>> :> <<5003778, 10242641, 1048576>> @@
     <<720, 720, 1440, 0>> :> <<5003778, 10242641, 786432>> @@
     <<720, 720, 1440, 960>> :> <<5003778, 10242641, 786432>> @@
     <<720, 720, 1440, 1920>> :> <<5003778, 10242641, 1048576>> @@
     <<720, 720, 1440, 2880>> :> <<5003778, 10242641, 1048576>> @@
     <<720, 720, 0, 480>> :> <<5217326, 14361393, 11010048>> @@
     <<720, 720, 160, 800>> :> <<3921164, 16535766, 7995392>> @@
     <<720, 720, 8, 0>> :> <<6626356, 11498664, 8912896>> @@
     <<720, 720, 0, 720>> :> <<5003778, 10242641, 786432>> @@
     <<720, 720, 168, 804>> :> <<3868915, 12397986, 14286848>> @@
     <<720, 720, 720, 1440>> :> <<3491493, 13549262, 14417920>> @@
     <<720, 720, -480, -2400>> :> <<17893447, 5702286, 10485760>> @@
     <<720, 720, 0, 240>> :> <<5808692, 11325580, 6291456>> @@
     <<720, 720, 480, 480>> :> <<2121667, 1713845, 9043968>> @@
     <<720, 720, -960, 2160>> :> <<14206421, 12867767, 13631488>> @@
     <<720, 720, 160, 960>> :> <<4148096, 9924019, 8650752>> @@
     <<720, 720, 16, 0>> :> <<6581104, 4449143, 1310720>> @@
     <<720, 720, 0, 16>> :> <<6607884, 2808149, 16515072>>) @@
    (<<720, 720, 0, 32>> :> <<6544836, 15663768, 7864320>> @@
     <<720, 720, 16, 16>> :> <<6516750, 12423961, 3145728>> @@
     <<720, 720, 0, 160>> :> <<6071667, 3944001, 524288>> @@
     <<720, 720, 160, 0>> :> <<5785941, 9141859, 4718592>> @@
     <<720, 720, 160, 160>> :> <<5127736, 1777249, 8388608>> @@
     <<720, 720, 720, 720>> :> <<0, 0, 0>> @@
     <<720, 720, -720, -1440>> :> <<16523620, 10644085, 5242880>> @@
     <<720, 720, 720, -1440>> :> <<9071176, 16574532, 524288>> @@
     <<720, 720, -160, -960>> :> <<11968937, 3926353, 3145728>> @@
     <<720, 720, 0, 1440>> :> <<6671704, 13656854, 12320768>> @@
     <<720, 720, 0, -1440>> :> <<13343409, 10536493, 7340032>> @@
     <<720, 720, 1, 1>> :> <<6662018, 2228605, 7602176>> @@
     <<-720, -1440, -1440, -2880>> :> <<5003778, 10242641, 1048576>> @@
     <<-720, -1440, -1440, -1920>> :> <<5003778, 10242641, 786432>> @@
     <<-720, -1440, -1440, -960>> :> <<5003778, 10242641, 786432>> @@
     <<-720, -1440, -1440, 0>> :> <<5003778, 10242641, 1048576>> @@
     <<-720, -1440, -1440, 960>> :> <<5003778, 10242641, 1048576>> @@
     <<-720, -1440, -1440, 1920>> :> <<5003778, 10242641, 1048576>> @@
     <<-720, -1440, -1440, 2880>> :> <<5003778, 10242641, 1048576>> @@
     <<-720, -1440, -960, -2880>> :> <<5808692, 11325580, 6291456>>) @@
    (<<-720, -1440, -960, -1920>> :> <<2589036, 6993823, 655360>> @@
     <<-720, -1440, -960, -960>> :> <<2589036, 6993823, 786432>> @@
     <<-720, -1440, -960, 0>> :> <<5808692, 11325580, 6291456>> @@
     <<-720, -1440, -960, 960>> :> <<8024999, 11111627, 4194304>> @@
     <<-720, -1440, -960, 1920>> :> <<8024999, 11111627, 4194304>> @@
     <<-720, -1440, -960, 2880>> :> <<5808692, 11325580, 6553600>> @@
     <<-720, -1440, -480, -2880>> :> <<7705284, 1586749, 7077888>> @@
     <<-720, -1440, -480, -1920>> :> <<3100737, 14121332, 1835008>> @@
     <<-720, -1440, -480, -960>> :> <<3100737, 14121332, 1966080>> @@
     <<-720, -1440, -480, 0>> :> <<7705284, 1586749, 7077888>> @@
     <<-720, -1440, -480, 960>> :> <<11139753, 383450, 16252928>> @@
     <<-720, -1440, -480, 1920>> :> <<11139753, 383450, 16252928>> @@
     <<-720, -1440, -480, 2880>> :> <<7705284, 1586749, 7602176>> @@
     <<-720, -1440, 0, -2880>> :> <<10007557, 3708066, 1572864>> @@
     <<-720, -1440, 0, -1920>> :> <<5808692, 11325580, 6291456>> @@
     <<-720, -1440, 0, -960>> :> <<5808692, 11325580, 6291456>> @@
     <<-720, -1440, 0, 0>> :> <<10007557, 3708066, 1572864>> @@
     <<-720, -1440, 0, 960>> :> <<14206421, 12867767, 13631488>> @@
     <<-720, -1440, 0, 1920>> :> <<14206421, 12867767, 13631488>> @@
     <<-720, -1440, 0, 2880>> :> <<10007557, 3708066, 1572864>>) @@
    (<<-720, -1440, 480, -2880>> :> <<12309830, 5829382, 12058624>> @@
     <<-720, -1440, 480, -1920>> :> <<8875361, 7032681, 3670016>> @@
     <<-720, -1440, 480, -960>> :> <<8875361, 7032681, 3670016>> @@
     <<-720, -1440, 480, 0>> :> <<12309830, 5829382, 12058624>> @@
     <<-720, -1440, 480, 960>> :> <<16914376, 10072015, 15728640>> @@
     <<-720, -1440, 480, 1920>> :> <<16914376, 10072016, 1048576>> @@
     <<-720, -1440, 480, 2880>> :> <<12309830, 5829382, 12582912>> @@
     <<-720, -1440, 960, -2880>> :> <<14206421, 12867767, 13631488>> @@
     <<-720, -1440, 960, -1920>> :> <<11990114, 13081720, 15204352>> @@
     <<-720, -1440, 960, -960>> :> <<11990114, 13081720, 16252928>> @@
     <<-720, -1440, 960, 0>> :> <<14206421, 12867767, 13631488>> @@
     <<-720, -1440, 960, 960>> :> <<17426078, 422309, 2097152>> @@
     <<-720, -1440, 960, 1920>> :> <<17426078, 422309, 2097152>> @@
     <<-720, -1440, 960, 2880>> :> <<14206421, 12867767, 13631488>> @@
     <<-720, -1440, 1440, -2880>> :> <<15011335, 13950707, 2097152>> @@
     <<-720, -1440, 1440, -1920>> :> <<15011335, 13950707, 2097152>> @@
     <<-720, -1440, 1440, -960>> :> <<15011335, 13950707, 2097152>> @@
     <<-720, -1440, 1440, 0>> :> <<15011335, 13950707, 2097152>> @@
     <<-720, -1440, 1440, 960>> :> <<15011335, 13950707, 2097152>> @@
     <<-720, -1440, 1440, 1920>> :> <<15011335, 13950707, 2097152>>) @@
    (<<-720, -1440, 1440, 2880>> :> <<15011335, 13950707, 2097152>> @@
     <<-720, -1440, 0, 480>> :> <<12309830, 5829382, 12582912>> @@
     <<-720, -1440, 160, 800>> :> <<14568030, 11509197, 524288>> @@
     <<-720, -1440, 8, 0>> :> <<10046870, 6193442, 13631488>> @@
     <<-720, -1440, 0, 720>> :> <<13343409, 10536493, 7340032>> @@
     <<-720, -1440, 168, 804>> :> <<14628873, 9873305, 6815744>> @@
     <<-720, -1440, 720, 1440>> :> <<20015114, 7416132, 3145728>> @@
     <<-720, -1440, -480, -2400>> :> <<5417422, 7256484, 15466496>> @@
     <<-720, -1440, 0, 240>> :> <<11180141, 10975709, 14155776>> @@
     <<-720, -1440, 480, 480>> :> <<14597692, 159647, 4718592>> @@
     <<-720, -1440, -960, 2160>> :> <<7645110, 3445086, 13631488>> @@
     <<-720, -1440, 160, 960>> :> <<15182596, 5944815, 9961472>> @@
     <<-720, -1440, 16, 0>> :> <<10086182, 339822, 3145728>> @@
     <<-720, -1440, 0, 16>> :> <<10086182, 339822, 3145728>> @@
     <<-720, -1440, 0, 32>> :> <<10164794, 14105510, 8912896>> @@
     <<-720, -1440, 16, 16>> :> <<10164806, 13741141, 14680064>> @@
     <<-720, -1440, 0, 160>> :> <<10791818, 9775810, 524288>> @@
     <<-720, -1440, 160, 0>> :> <<10791818, 9775810, 524288>> @@
     <<-720, -1440, 160, 160>> :> <<11576033, 786644, 5242880>> @@
     <<-720, -1440, 720, 720>> :> <<16523620, 10644085, 5242880>>) @@
    (<<-720, -1440, -720, -1440>> :> <<0, 0, 0>> @@
     <<-720, -1440, 720, -1440>> :> <<10007557, 3708066, 1048576>> @@
     <<-720, -1440, -160, -960>> :> <<4832518, 1471316, 9699328>> @@
     <<-720, -1440, 0, 1440>> :> <<15011335, 13950707, 2621440>> @@
     <<-720, -1440, 0, -1440>> :> <<5003778, 10242641, 786432>> @@
     <<-720, -1440, 1, 1>> :> <<10017385, 9553816, 12058624>> @@
     <<720, -1440, -1440, -2880>> :> <<15011335, 13950707, 2097152>> @@
     <<720, -1440, -1440, -1920>> :> <<15011335, 13950707, 2097152>> @@
     <<720, -1440, -1440, -960>> :> <<15011335, 13950707, 2097152>> @@
     <<720, -1440, -1440, 0>> :> <<15011335, 13950707, 2097152>> @@
     <<720, -1440, -1440, 960>> :> <<15011335, 13950707, 2097152>> @@
     <<720, -1440, -1440, 1920>> :> <<15011335, 13950707, 2097152>> @@
     <<720, -1440, -1440, 2880>> :> <<15011335, 13950707, 2097152>> @@
     <<720, -1440, -960, -2880>> :> <<14206421, 12867767, 13631488>> @@
     <<720, -1440, -960, -1920>> :> <<11990114, 13081720, 15204352>> @@
     <<720, -1440, -960, -960>> :> <<11990114, 13081720, 16252928>> @@
     <<720, -1440, -960, 0>> :> <<14206421, 12867767, 13631488>> @@
     <<720, -1440, -960, 960>> :> <<17426078, 422309, 2097152>> @@
     <<720, -1440, -960, 1920>> :> <<17426078, 422309, 2097152>> @@
     <<720, -1440, -960, 2880>> :> <<14206421, 12867767, 13631488>>) @@
    (<<720, -1440, -480, -2880>> :> <<12309830, 5829382, 12058624>> @@
     <<720, -1440, -480, -1920>> :> <<8875361, 7032681, 3670016>> @@
     <<720, -1440, -480, -960>> :> <<8875361, 7032681, 3670016>> @@
     <<720, -1440, -480, 0>> :> <<12309830, 5829382, 12058624>> @@
     <<720, -1440, -480, 960>> :> <<16914376, 10072015, 15728640>> @@
     <<720, -1440, -480, 1920>> :> <<16914376, 10072016, 1048576>> @@
     <<720, -1440, -480, 2880>> :> <<12309830, 5829382, 12582912>> @@
     <<720, -1440, 0, -2880>> :> <<10007557, 3708066, 1572864>> @@
     <<720, -1440, 0, -1920>> :> <<5808692, 11325580, 6291456>> @@
     <<720, -1440, 0, -960>> :> <<5808692, 11325580, 6291456>> @@
     <<720, -1440, 0, 0>> :> <<10007557, 3708066, 1572864>> @@
     <<720, -1440, 0, 960>> :> <<14206421, 12867767, 13631488>> @@
     <<720, -1440, 0, 1920>> :> <<14206421, 12867767, 13631488>> @@
     <<720, -1440, 0, 2880>> :> <<10007557, 3708066, 1572864>> @@
     <<720, -1440, 480, -2880>> :> <<7705284, 1586749, 7077888>> @@
     <<720, -1440, 480, -1920>> :> <<3100737, 14121332, 1835008>> @@
     <<720, -1440, 480, -960>> :> <<3100737, 14121332, 1966080>> @@
     <<720, -1440, 480, 0>> :> <<7705284, 1586749, 7077888>> @@
     <<720, -1440, 480, 960>> :> <<11139753, 383450, 16252928>> @@
     <<720, -1440, 480, 1920>> :> <<11139753, 383450, 16252928>>) @@
    (<<720, -1440, 480, 2880>> :> <<7705284, 1586749, 7602176>> @@
     <<720, -1440, 960, -2880>> :> <<5808692, 11325580, 6291456>> @@
     <<720, -1440, 960, -1920>> :> <<2589036, 6993823, 655360>> @@
     <<720, -1440, 960, -960>> :> <<2589036, 6993823, 786432>> @@
     <<720, -1440, 960, 0>> :> <<5808692, 11325580, 6291456>> @@
     <<720, -1440, 960, 960>> :> <<8024999, 11111627, 4194304>> @@
     <<720, -1440, 960, 1920>> :> <<8024999, 11111627, 4194304>> @@
     <<720, -1440, 960, 2880>> :> <<5808692, 11325580, 6553600>> @@
     <<720, -1440, 1440, -2880>> :> <<5003778, 10242641, 1048576>> @@
     <<720, -1440, 1440, -1920>> :> <<5003778, 10242641, 786432>> @@
     <<720, -1440, 1440, -960>> :> <<5003778, 10242641, 786432>> @@
     <<720, -1440, 1440, 0>> :> <<5003778, 10242641, 1048576>> @@
     <<720, -1440, 1440, 960>> :> <<5003778, 10242641, 1048576>> @@
     <<720, -1440, 1440, 1920>> :> <<5003778, 10242641, 1048576>> @@
     <<720, -1440, 1440, 2880>> :> <<5003778, 10242641, 1048576>> @@
     <<720, -1440, 0, 480>> :> <<12309830, 5829382, 12582912>> @@
     <<720, -1440, 160, 800>> :> <<12703613, 13048281, 6815744>> @@
     <<720, -1440, 8, 0>> :> <<9968244, 1222689, 6815744>> @@
     <<720, -1440, 0, 720>> :> <<13343409, 10536493, 7340032>> @@
     <<720, -1440, 168, 804>> :> <<12668940, 3353984, 11534336>>) @@
    (<<720, -1440, 720, 1440>> :> <<10007557, 3708066, 1572864>> @@
     <<720, -1440, -480, -2400>> :> <<10309446, 14366702, 0>> @@
     <<720, -1440, 0, 240>> :> <<11180141, 10975709, 14155776>> @@
     <<720, -1440, 480, 480>> :> <<9705667, 9826646, 2621440>> @@
     <<720, -1440, -960, 2160>> :> <<16633006, 4757114, 10485760>> @@
     <<720, -1440, 160, 960>> :> <<13199276, 78695, 5767168>> @@
     <<720, -1440, 16, 0>> :> <<9928932, 7076309, 15728640>> @@
     <<720, -1440, 0, 16>> :> <<10086182, 339822, 3145728>> @@
     <<720, -1440, 0, 32>> :> <<10164794, 14105510, 8912896>> @@
     <<720, -1440, 16, 16>> :> <<10007545, 4133640, 8388608>> @@
     <<720, -1440, 0, 160>> :> <<10791818, 9775810, 524288>> @@
     <<720, -1440, 160, 0>> :> <<9223295, 14417538, 2097152>> @@
     <<720, -1440, 160, 160>> :> <<9995672, 9899200, 12058624>> @@
     <<720, -1440, 720, 720>> :> <<9071176, 16574532, 524288>> @@
     <<720, -1440, -720, -1440>> :> <<10007557, 3708066, 1048576>> @@
     <<720, -1440, 720, -1440>> :> <<0, 0, 0>> @@
     <<720, -1440, -160, -960>> :> <<6815838, 7337436, 13893632>> @@
     <<720, -1440, 0, 1440>> :> <<15011335, 13950707, 2621440>> @@
     <<720, -1440, 0, -1440>> :> <<5003778, 10242641, 786432>> @@
     <<720, -1440, 1, 1>> :> <<10007557, 3659014, 4194304>>) @@
    (<<-160, -960, -1440, -2880>> :> <<8895606, 7024328, 15728640>> @@
     <<-160, -960, -1440, -1920>> :> <<8895606, 7024328, 15728640>> @@
     <<-160, -960, -1440, -960>> :> <<8895606, 7024328, 15728640>> @@
     <<-160, -960, -1440, 0>> :> <<8895606, 7024328, 15728640>> @@
     <<-160, -960, -1440, 960>> :> <<8895606, 7024328, 15728640>> @@
     <<-160, -960, -1440, 1920>> :> <<8895606, 7024328, 15728640>> @@
     <<-160, -960, -1440, 2880>> :> <<8895606, 7024328, 15728640>> @@
     <<-160, -960, -960, -2880>> :> <<10618953, 14189813, 7340032>> @@
     <<-160, -960, -960, -1920>> :> <<7409494, 12171322, 4980736>> @@
     <<-160, -960, -960, -960>> :> <<5559754, 195901, 9961472>> @@
     <<-160, -960, -960, 0>> :> <<7409494, 12171322, 4980736>> @@
     <<-160, -960, -960, 960>> :> <<10618953, 14189813, 6815744>> @@
     <<-160, -960, -960, 1920>> :> <<12231458, 13852756, 5242880>> @@
     <<-160, -960, -960, 2880>> :> <<10618953, 14189813, 7340032>> @@
     <<-160, -960, -480, -2880>> :> <<12215127, 2194292, 9961472>> @@
     <<-160, -960, -480, -1920>> :> <<6573729, 8491424, 6553600>> @@
     <<-160, -960, -480, -960>> :> <<2223901, 10144690, 3932160>> @@
     <<-160, -960, -480, 0>> :> <<6573729, 8491424, 6553600>> @@
     <<-160, -960, -480, 960>> :> <<12215127, 2194292, 8388608>> @@
     <<-160, -960, -480, 1920>> :> <<15567311, 3903967, 12058624>>) @@
    (<<-160, -960, -480, 2880>> :> <<12215127, 2194292, 9961472>> @@
     <<-160, -960, 0, -2880>> :> <<13287668, 80208, 5767168>> @@
     <<-160, -960, 0, -1920>> :> <<6727446, 7335923, 13369344>> @@
     <<-160, -960, 0, -960>> :> <<1111950, 13460953, 2031616>> @@
     <<-160, -960, 0, 0>> :> <<6727446, 7335923, 13369344>> @@
     <<-160, -960, 0, 960>> :> <<13287668, 80208, 5242880>> @@
     <<-160, -960, 0, 1920>> :> <<18903163, 10732395, 1048576>> @@
     <<-160, -960, 0, 2880>> :> <<13287668, 80208, 5767168>> @@
     <<-160, -960, 480, -2880>> :> <<13441384, 15701923, 13631488>> @@
     <<-160, -960, 480, -1920>> :> <<7799987, 5221839, 9961472>> @@
     <<-160, -960, 480, -960>> :> <<4447803, 3512164, 8126464>> @@
     <<-160, -960, 480, 0>> :> <<7799987, 5221839, 9961472>> @@
     <<-160, -960, 480, 960>> :> <<13441384, 15701923, 12058624>> @@
     <<-160, -960, 480, 1920>> :> <<17791212, 14048657, 14680064>> @@
     <<-160, -960, 480, 2880>> :> <<13441384, 15701923, 13631488>> @@
     <<-160, -960, 960, -2880>> :> <<12605619, 12022025, 14680064>> @@
     <<-160, -960, 960, -1920>> :> <<9396160, 10003534, 12058624>> @@
     <<-160, -960, 960, -960>> :> <<7783655, 10340591, 13893632>> @@
     <<-160, -960, 960, 0>> :> <<9396160, 10003534, 12058624>> @@
     <<-160, -960, 960, 960>> :> <<12605619, 12022025, 13631488>>) @@
    (<<-160, -960, 960, 1920>> :> <<14455360, 7220230, 9437184>> @@
     <<-160, -960, 960, 2880>> :> <<12605619, 12022025, 14680064>> @@
     <<-160, -960, 1440, -2880>> :> <<11119508, 391803, 3145728>> @@
     <<-160, -960, 1440, -1920>> :> <<11119508, 391803, 3145728>> @@
     <<-160, -960, 1440, -960>> :> <<11119508, 391803, 3145728>> @@
     <<-160, -960, 1440, 0>> :> <<11119508, 391803, 3145728>> @@
     <<-160, -960, 1440, 960>> :> <<11119508, 391803, 3145728>> @@
     <<-160, -960, 1440, 1920>> :> <<11119508, 391803, 3670016>> @@
     <<-160, -960, 1440, 2880>> :> <<11119508, 391803, 3145728>> @@
     <<-160, -960, 0, 480>> :> <<10007557, 3708066, 1048576>> @@
     <<-160, -960, 160, 800>> :> <<12366506, 5710108, 2621440>> @@
     <<-160, -960, 8, 0>> :> <<6738670, 5023533, 4980736>> @@
     <<-160, -960, 0, 720>> :> <<11649562, 11674304, 4194304>> @@
     <<-160, -960, 168, 804>> :> <<12400269, 7608765, 10485760>> @@
     <<-160, -960, 720, 1440>> :> <<15182596, 5944815, 9961472>> @@
     <<-160, -960, -480, -2400>> :> <<9453702, 13928593, 2097152>> @@
     <<-160, -960, 0, 240>> :> <<8365551, 12519043, 14942208>> @@
     <<-160, -960, 480, 480>> :> <<10561411, 10264755, 524288>> @@
     <<-160, -960, -960, 2160>> :> <<12118065, 7670361, 7340032>> @@
     <<-160, -960, 160, 960>> :> <<13454892, 14671847, 9961472>>) @@
    (<<-160, -960, 16, 0>> :> <<6750156, 1956716, 15728640>> @@
     <<-160, -960, 0, 16>> :> <<6836427, 7064383, 8912896>> @@
     <<-160, -960, 0, 32>> :> <<6945449, 10124061, 2621440>> @@
     <<-160, -960, 16, 16>> :> <<6858907, 5290168, 9961472>> @@
     <<-160, -960, 0, 160>> :> <<7818849, 1221397, 8650752>> @@
     <<-160, -960, 160, 0>> :> <<6999718, 15672581, 9175040>> @@
     <<-160, -960, 160, 160>> :> <<8055981, 2746091, 9175040>> @@
     <<-160, -960, 720, 720>> :> <<11968937, 3926353, 3145728>> @@
     <<-160, -960, -720, -1440>> :> <<4832518, 1471316, 9699328>> @@
     <<-160, -960, 720, -1440>> :> <<6815838, 7337436, 13893632>> @@
     <<-160, -960, -160, -960>> :> <<0, 0, 0>> @@
     <<-160, -960, 0, 1440>> :> <<16515254, 16357057, 5242880>> @@
     <<-160, -960, 0, -1440>> :> <<3499859, 7836290, 13238272>> @@
     <<-160, -960, 1, 1>> :> <<6735644, 4272326, 8650752>> @@
     <<0, 1440, -1440, -2880>> :> <<10007557, 3708066, 1048576>> @@
     <<0, 1440, -1440, -1920>> :> <<10007557, 3708066, 1048576>> @@
     <<0, 1440, -1440, -960>> :> <<10007557, 3708066, 1048576>> @@
     <<0, 1440, -1440, 0>> :> <<10007557, 3708066, 1048576>> @@
     <<0, 1440, -1440, 960>> :> <<10007557, 3708066, 1048576>> @@
     <<0, 1440, -1440, 1920>> :> <<10007557, 3708066, 1048576>>) @@
    (<<0, 1440, -1440, 2880>> :> <<10007557, 3708066, 1048576>> @@
     <<0, 1440, -960, -2880>> :> <<10007557, 3708066, 1572864>> @@
     <<0, 1440, -960, -1920>> :> <<12860701, 6086392, 14680064>> @@
     <<0, 1440, -960, -960>> :> <<12860701, 6086392, 14155776>> @@
     <<0, 1440, -960, 0>> :> <<10007557, 3708066, 1048576>> @@
     <<0, 1440, -960, 960>> :> <<7154413, 1329739, 5505024>> @@
     <<0, 1440, -960, 1920>> :> <<7154413, 1329739, 5505024>> @@
     <<0, 1440, -960, 2880>> :> <<10007557, 3708066, 1048576>> @@
     <<0, 1440, -480, -2880>> :> <<10007557, 3708066, 1572864>> @@
     <<0, 1440, -480, -1920>> :> <<15410568, 3173498, 15204352>> @@
     <<0, 1440, -480, -960>> :> <<15410568, 3173498, 14155776>> @@
     <<0, 1440, -480, 0>> :> <<10007557, 3708066, 1048576>> @@
     <<0, 1440, -480, 960>> :> <<4604546, 4242633, 5242880>> @@
     <<0, 1440, -480, 1920>> :> <<4604546, 4242633, 4980736>> @@
     <<0, 1440, -480, 2880>> :> <<10007557, 3708066, 1048576>> @@
     <<0, 1440, 0, -2880>> :> <<10007557, 3708066, 1572864>> @@
     <<0, 1440, 0, -1920>> :> <<16679262, 587704, 13631488>> @@
     <<0, 1440, 0, -960>> :> <<16679262, 587704, 12058624>> @@
     <<0, 1440, 0, 0>> :> <<10007557, 3708066, 1048576>> @@
     <<0, 1440, 0, 960>> :> <<3335852, 6828427, 6160384>>) @@
    (<<0, 1440, 0, 1920>> :> <<3335852, 6828427, 5767168>> @@
     <<0, 1440, 0, 2880>> :> <<10007557, 3708066, 1048576>> @@
     <<0, 1440, 480, -2880>> :> <<10007557, 3708066, 1572864>> @@
     <<0, 1440, 480, -1920>> :> <<15410568, 3173498, 15204352>> @@
     <<0, 1440, 480, -960>> :> <<15410568, 3173498, 14155776>> @@
     <<0, 1440, 480, 0>> :> <<10007557, 3708066, 1048576>> @@
     <<0, 1440, 480, 960>> :> <<4604546, 4242633, 5242880>> @@
     <<0, 1440, 480, 1920>> :> <<4604546, 4242633, 4980736>> @@
     <<0, 1440, 480, 2880>> :> <<10007557, 3708066, 1048576>> @@
     <<0, 1440, 960, -2880>> :> <<10007557, 3708066, 1572864>> @@
     <<0, 1440, 960, -1920>> :> <<12860701, 6086392, 14680064>> @@
     <<0, 1440, 960, -960>> :> <<12860701, 6086392, 14155776>> @@
     <<0, 1440, 960, 0>> :> <<10007557, 3708066, 1048576>> @@
     <<0, 1440, 960, 960>> :> <<7154413, 1329739, 5505024>> @@
     <<0, 1440, 960, 1920>> :> <<7154413, 1329739, 5505024>> @@
     <<0, 1440, 960, 2880>> :> <<10007557, 3708066, 1048576>> @@
     <<0, 1440, 1440, -2880>> :> <<10007557, 3708066, 1048576>> @@
     <<0, 1440, 1440, -1920>> :> <<10007557, 3708066, 1048576>> @@
     <<0, 1440, 1440, -960>> :> <<10007557, 3708066, 1048576>> @@
     <<0, 1440, 1440, 0>> :> <<10007557, 3708066, 1048576>>) @@
    (<<0, 1440, 1440, 960>> :> <<10007557, 3708066, 1048576>> @@
     <<0, 1440, 1440, 1920>> :> <<10007557, 3708066, 1048576>> @@
     <<0, 1440, 1440, 2880>> :> <<10007557, 3708066, 1048576>> @@
     <<0, 1440, 0, 480>> :> <<6671704, 13656854, 12320768>> @@
     <<0, 1440, 160, 800>> :> <<4561940, 11135655, 14680064>> @@
     <<0, 1440, 8, 0>> :> <<10007557, 3708066, 1048576>> @@
     <<0, 1440, 0, 720>> :> <<5003778, 10242641, 786432>> @@
     <<0, 1440, 168, 804>> :> <<4546769, 664755, 6553600>> @@
     <<0, 1440, 720, 1440>> :> <<5003778, 10242641, 786432>> @@
     <<0, 1440, -480, -2400>> :> <<12860701, 6086392, 13107200>> @@
     <<0, 1440, 0, 240>> :> <<8339631, 293852, 6815744>> @@
     <<0, 1440, 480, 480>> :> <<7154413, 1329739, 5505024>> @@
     <<0, 1440, -960, 2160>> :> <<7705284, 1586749, 7077888>> @@
     <<0, 1440, 160, 960>> :> <<3499859, 7836290, 13238272>> @@
     <<0, 1440, 16, 0>> :> <<10007557, 3708066, 1048576>> @@
     <<0, 1440, 0, 16>> :> <<9896362, 2361970, 12582912>> @@
     <<0, 1440, 0, 32>> :> <<9785167, 1015875, 7340032>> @@
     <<0, 1440, 16, 16>> :> <<9896379, 1309514, 15728640>> @@
     <<0, 1440, 0, 160>> :> <<8895606, 7024328, 15728640>> @@
     <<0, 1440, 160, 0>> :> <<10007557, 3708066, 1048576>>) @@
    (<<0, 1440, 160, 160>> :> <<8912669, 1477140, 15728640>> @@
     <<0, 1440, 720, 720>> :> <<6671704, 13656854, 12320768>> @@
     <<0, 1440, -720, -1440>> :> <<15011335, 13950707, 2621440>> @@
     <<0, 1440, 720, -1440>> :> <<15011335, 13950707, 2621440>> @@
     <<0, 1440, -160, -960>> :> <<16515254, 16357057, 5242880>> @@
     <<0, 1440, 0, 1440>> :> <<0, 0, 0>> @@
     <<0, 1440, 0, -1440>> :> <<20015114, 7416132, 3145728>> @@
     <<0, 1440, 1, 1>> :> <<10000607, 8936184, 15204352>> @@
     <<0, -1440, -1440, -2880>> :> <<10007557, 3708066, 1048576>> @@
     <<0, -1440, -1440, -1920>> :> <<10007557, 3708066, 1048576>> @@
     <<0, -1440, -1440, -960>> :> <<10007557, 3708066, 1048576>> @@
     <<0, -1440, -1440, 0>> :> <<10007557, 3708066, 1048576>> @@
     <<0, -1440, -1440, 960>> :> <<10007557, 3708066, 1048576>> @@
     <<0, -1440, -1440, 1920>> :> <<10007557, 3708066, 1048576>> @@
     <<0, -1440, -1440, 2880>> :> <<10007557, 3708066, 1048576>> @@
     <<0, -1440, -960, -2880>> :> <<10007557, 3708066, 1048576>> @@
     <<0, -1440, -960, -1920>> :> <<7154413, 1329739, 5505024>> @@
     <<0, -1440, -960, -960>> :> <<7154413, 1329739, 5505024>> @@
     <<0, -1440, -960, 0>> :> <<10007557, 3708066, 1048576>> @@
     <<0, -1440, -960, 960>> :> <<12860701, 6086392, 14155776>>) @@
    (<<0, -1440, -960, 1920>> :> <<12860701, 6086392, 14680064>> @@
     <<0, -1440, -960, 2880>> :> <<10007557, 3708066, 1572864>> @@
     <<0, -1440, -480, -2880>> :> <<10007557, 3708066, 1048576>> @@
     <<0, -1440, -480, -1920>> :> <<4604546, 4242633, 4980736>> @@
     <<0, -1440, -480, -960>> :> <<4604546, 4242633, 5242880>> @@
     <<0, -1440, -480, 0>> :> <<10007557, 3708066, 1048576>> @@
     <<0, -1440, -480, 960>> :> <<15410568, 3173498, 14155776>> @@
     <<0, -1440, -480, 1920>> :> <<15410568, 3173498, 15204352>> @@
     <<0, -1440, -480, 2880>> :> <<10007557, 3708066, 1572864>> @@
     <<0, -1440, 0, -2880>> :> <<10007557, 3708066, 1048576>> @@
     <<0, -1440, 0, -1920>> :> <<3335852, 6828427, 5767168>> @@
     <<0, -1440, 0, -960>> :> <<3335852, 6828427, 6160384>> @@
     <<0, -1440, 0, 0>> :> <<10007557, 3708066, 1048576>> @@
     <<0, -1440, 0, 960>> :> <<16679262, 587704, 12058624>> @@
     <<0, -1440, 0, 1920>> :> <<16679262, 587704, 13631488>> @@
     <<0, -1440, 0, 2880>> :> <<10007557, 3708066, 1572864>> @@
     <<0, -1440, 480, -2880>> :> <<10007557, 3708066, 1048576>> @@
     <<0, -1440, 480, -1920>> :> <<4604546, 4242633, 4980736>> @@
     <<0, -1440, 480, -960>> :> <<4604546, 4242633, 5242880>> @@
     <<0, -1440, 480, 0>> :> <<10007557, 3708066, 1048576>>) @@
    (<<0, -1440, 480, 960>> :> <<15410568, 3173498, 14155776>> @@
     <<0, -1440, 480, 1920>> :> <<15410568, 3173498, 15204352>> @@
     <<0, -1440, 480, 2880>> :> <<10007557, 3708066, 1572864>> @@
     <<0, -1440, 960, -2880>> :> <<10007557, 3708066, 1048576>> @@
     <<0, -1440, 960, -1920>> :> <<7154413, 1329739, 5505024>> @@
     <<0, -1440, 960, -960>> :> <<7154413, 1329739, 5505024>> @@
     <<0, -1440, 960, 0>> :> <<10007557, 3708066, 1048576>> @@
     <<0, -1440, 960, 960>> :> <<12860701, 6086392, 14155776>> @@
     <<0, -1440, 960, 1920>> :> <<12860701, 6086392, 14680064>> @@
     <<0, -1440, 960, 2880>> :> <<10007557, 3708066, 1572864>> @@
     <<0, -1440, 1440, -2880>> :> <<10007557, 3708066, 1048576>> @@
     <<0, -1440, 1440, -1920>> :> <<10007557, 3708066, 1048576>> @@
     <<0, -1440, 1440, -960>> :> <<10007557, 3708066, 1048576>> @@
     <<0, -1440, 1440, 0>> :> <<10007557, 3708066, 1048576>> @@
     <<0, -1440, 1440, 960>> :> <<10007557, 3708066, 1048576>> @@
     <<0, -1440, 1440, 1920>> :> <<10007557, 3708066, 1048576>> @@
     <<0, -1440, 1440, 2880>> :> <<10007557, 3708066, 1048576>> @@
     <<0, -1440, 0, 480>> :> <<13343409, 10536493, 7340032>> @@
     <<0, -1440, 160, 800>> :> <<15453173, 13057692, 3670016>> @@
     <<0, -1440, 8, 0>> :> <<10007557, 3708066, 1048576>>) @@
    (<<0, -1440, 0, 720>> :> <<15011335, 13950707, 2097152>> @@
     <<0, -1440, 168, 804>> :> <<15468345, 6751376, 13107200>> @@
     <<0, -1440, 720, 1440>> :> <<15011335, 13950707, 2621440>> @@
     <<0, -1440, -480, -2400>> :> <<7154413, 1329739, 5505024>> @@
     <<0, -1440, 0, 240>> :> <<11675483, 7122279, 13107200>> @@
     <<0, -1440, 480, 480>> :> <<12860701, 6086392, 14155776>> @@
     <<0, -1440, -960, 2160>> :> <<12309830, 5829382, 12582912>> @@
     <<0, -1440, 160, 960>> :> <<16515254, 16357057, 5242880>> @@
     <<0, -1440, 16, 0>> :> <<10007557, 3708066, 1048576>> @@
     <<0, -1440, 0, 16>> :> <<10118752, 5054161, 6815744>> @@
     <<0, -1440, 0, 32>> :> <<10229947, 6400256, 11534336>> @@
     <<0, -1440, 16, 16>> :> <<10118735, 6106617, 3670016>> @@
     <<0, -1440, 0, 160>> :> <<11119508, 391803, 3145728>> @@
     <<0, -1440, 160, 0>> :> <<10007557, 3708066, 1048576>> @@
     <<0, -1440, 160, 160>> :> <<11102445, 5938991, 3145728>> @@
     <<0, -1440, 720, 720>> :> <<13343409, 10536493, 7340032>> @@
     <<0, -1440, -720, -1440>> :> <<5003778, 10242641, 786432>> @@
     <<0, -1440, 720, -1440>> :> <<5003778, 10242641, 786432>> @@
     <<0, -1440, -160, -960>> :> <<3499859, 7836290, 13238272>> @@
     <<0, -1440, 0, 1440>> :> <<20015114, 7416132, 3145728>>) @@
    (<<0, -1440, 0, -1440>> :> <<0, 0, 0>> @@
     <<0, -1440, 1, 1>> :> <<10014506, 15257163, 4194304>> @@
     <<1, 1, -1440, -2880>> :> <<10014506, 15326533, 1048576>> @@
     <<1, 1, -1440, -1920>> :> <<10014506, 15326533, 0>> @@
     <<1, 1, -1440, -960>> :> <<10014506, 15326533, 0>> @@
     <<1, 1, -1440, 0>> :> <<10014506, 15326533, 0>> @@
     <<1, 1, -1440, 960>> :> <<10014506, 15326533, 0>> @@
     <<1, 1, -1440, 1920>> :> <<10014506, 15326533, 0>> @@
     <<1, 1, -1440, 2880>> :> <<10014506, 15326533, 1048576>> @@
     <<1, 1, -960, -2880>> :> <<13350357, 2193309, 1048576>> @@
     <<1, 1, -960, -1920>> :> <<11626709, 2430396, 5767168>> @@
     <<1, 1, -960, -960>> :> <<8407053, 4666546, 13107200>> @@
     <<1, 1, -960, 0>> :> <<6678656, 11636294, 7602176>> @@
     <<1, 1, -960, 960>> :> <<8400838, 14288867, 11534336>> @@
     <<1, 1, -960, 1920>> :> <<11620491, 9841102, 13107200>> @@
     <<1, 1, -960, 2880>> :> <<13350357, 2193309, 1048576>> @@
     <<1, 1, -480, -2880>> :> <<16686205, 2513863, 16252928>> @@
     <<1, 1, -480, -1920>> :> <<12870338, 11919117, 6291456>> @@
     <<1, 1, -480, -960>> :> <<7164050, 11862384, 14417920>> @@
     <<1, 1, -480, 0>> :> <<3342808, 10945767, 2490368>>) @@
    (<<1, 1, -480, 960>> :> <<7152489, 1465591, 262144>> @@
     <<1, 1, -480, 1920>> :> <<12858770, 6165334, 2097152>> @@
     <<1, 1, -480, 2880>> :> <<16686205, 2513863, 16252928>> @@
     <<1, 1, 0, -2880>> :> <<20005286, 1570363, 1048576>> @@
     <<1, 1, 0, -1920>> :> <<13350357, 2123895, 9961472>> @@
     <<1, 1, 0, -960>> :> <<6678656, 11566968, 5505024>> @@
     <<1, 1, 0, 0>> :> <<9828, 5845750, 11079680>> @@
     <<1, 1, 0, 960>> :> <<6664757, 5292236, 9699328>> @@
     <<1, 1, 0, 1920>> :> <<13336457, 12626379, 12058624>> @@
     <<1, 1, 0, 2880>> :> <<20005286, 1570363, 1048576>> @@
     <<1, 1, 480, -2880>> :> <<16672305, 13247581, 1572864>> @@
     <<1, 1, 480, -1920>> :> <<12862625, 5950541, 2621440>> @@
     <<1, 1, 480, -960>> :> <<7156344, 1250798, 262144>> @@
     <<1, 1, 480, 0>> :> <<3328909, 4902268, 3801088>> @@
     <<1, 1, 480, 960>> :> <<7144775, 12274230, 13631488>> @@
     <<1, 1, 480, 1920>> :> <<12851063, 12330963, 4718592>> @@
     <<1, 1, 480, 2880>> :> <<16672305, 13247581, 1572864>> @@
     <<1, 1, 960, -2880>> :> <<13336457, 12557053, 11534336>> @@
     <<1, 1, 960, -1920>> :> <<11614275, 9904480, 7864320>> @@
     <<1, 1, 960, -960>> :> <<8394622, 14352245, 5767168>>) @@
    (<<1, 1, 960, 0>> :> <<6664757, 5222823, 1572864>> @@
     <<1, 1, 960, 960>> :> <<8388405, 4985735, 13631488>> @@
     <<1, 1, 960, 1920>> :> <<11608061, 2749585, 5767168>> @@
     <<1, 1, 960, 2880>> :> <<13336457, 12557053, 11534336>> @@
     <<1, 1, 1440, -2880>> :> <<10000607, 8866815, 2097152>> @@
     <<1, 1, 1440, -1920>> :> <<10000607, 8866815, 2097152>> @@
     <<1, 1, 1440, -960>> :> <<10000607, 8866815, 2097152>> @@
     <<1, 1, 1440, 0>> :> <<10000607, 8866815, 2097152>> @@
     <<1, 1, 1440, 960>> :> <<10000607, 8866815, 2097152>> @@
     <<1, 1, 1440, 1920>> :> <<10000607, 8866815, 2097152>> @@
     <<1, 1, 1440, 2880>> :> <<10000607, 8866815, 2097152>> @@
     <<1, 1, 0, 480>> :> <<3328909, 4971769, 3276800>> @@
     <<1, 1, 160, 800>> :> <<5632213, 390050, 11534336>> @@
     <<1, 1, 8, 0>> :> <<49141, 12294571, 282624>> @@
     <<1, 1, 0, 720>> :> <<4996832, 12024913, 6029312>> @@
     <<1, 1, 168, 804>> :> <<5667391, 14584346, 1572864>> @@
     <<1, 1, 720, 1440>> :> <<9997728, 14639531, 7340032>> @@
     <<1, 1, -480, -2400>> :> <<15420371, 4356463, 14680064>> @@
     <<1, 1, 0, 240>> :> <<1660990, 12064971, 12058624>> @@
     <<1, 1, 480, 480>> :> <<4594743, 3059668, 5242880>>) @@
    (<<1, 1, -960, 2160>> :> <<12313635, 5717241, 11534336>> @@
     <<1, 1, 160, 960>> :> <<6719251, 3888610, 10223616>> @@
     <<1, 1, 16, 0>> :> <<104476, 12788960, 16556032>> @@
     <<1, 1, 0, 16>> :> <<104476, 12862791, 1310720>> @@
     <<1, 1, 0, 32>> :> <<215552, 8185859, 15245312>> @@
     <<1, 1, 16, 16>> :> <<147421, 4195483, 11296768>> @@
     <<1, 1, 0, 160>> :> <<1105022, 12489040, 15007744>> @@
     <<1, 1, 160, 0>> :> <<1105022, 12419240, 10616832>> @@
     <<1, 1, 160, 160>> :> <<1558694, 11149323, 15728640>> @@
     <<1, 1, 720, 720>> :> <<6662018, 2228605, 7602176>> @@
     <<1, 1, -720, -1440>> :> <<10017385, 9553816, 12058624>> @@
     <<1, 1, 720, -1440>> :> <<10007557, 3659014, 4194304>> @@
     <<1, 1, -160, -960>> :> <<6735644, 4272326, 8650752>> @@
     <<1, 1, 0, 1440>> :> <<10000607, 8936184, 15204352>> @@
     <<1, 1, 0, -1440>> :> <<10014506, 15257163, 4194304>> @@
     <<1, 1, 1, 1>> :> <<0, 0, 0>>)

NaNMetres == <<"nan">>

\* _ensure_lat_lon, on one coordinate: x < -bound or x > bound raises
\* ValueError, and the comparison itself TypeError when x is no number; a
\* nan compares false both times and passes
ensure_lat_lon(x, bound) ==
    IF x.t # "num" THEN Raise("TypeError")
    ELSE IF Lt(x, Whole(0 - bound)) \/ Lt(Whole(bound), x) THEN Raise("ValueError")
    ELSE Ok(x)

\* the formula on c = <<lat1, lng1, lat2, lng2>>, after the checks of the
\* four coordinates in this order
haversine_checked(c, checks) ==
    IF \E i \in 1..4 : ~checks[i].ok THEN FirstRaised(checks)
    ELSE IF \E i \in 1..4 : c[i].c = "nan" THEN Ok(NaNMetres)
    ELSE Ok(Haversine[<<Sixteenths(c[1]), Sixteenths(c[2]),
                        Sixteenths(c[3]), Sixteenths(c[4])>>])

\* haversine unpacks both points into (lat, lng): a tuple of another length
\* raises ValueError
calculate_distance(p1, p2) ==
    IF Len(p1) # 2 \/ Len(p2) # 2 THEN Raise("ValueError")
    ELSE haversine_checked(<<p1[1], p1[2], p2[1], p2[2]>>,
                           <<ensure_lat_lon(p1[1], 90), ensure_lat_lon(p1[2], 180),
                             ensure_lat_lon(p2[1], 90), ensure_lat_lon(p2[2], 180)>>)

\* limbs brought back below 2^24, carrying upwards from the i-th
RECURSIVE float_carry(_, _)
float_carry(s, i) ==
    IF i = 1 THEN s
    ELSE float_carry([s EXCEPT ![i] = s[i] % 2^24,
                               ![i - 1] = s[i - 1] + s[i] \div 2^24], i - 1)

\* e with 2^e <= m < 2^(e + 1)
float_exponent2(m) == CHOOSE e \in 0..30 : 2^e <= m /\ m < 2^(e + 1)

\* s without the bits below bit d of limb j, rounded to nearest, ties to even
float_round_bits(s, j, d) ==
    LET kept  == s[j] \div 2^d
        low   == s[j] % 2^d
        half  == IF d > 0 THEN low = 2^(d - 1) ELSE j < Len(s) /\ s[j + 1] = 2^23
        more  == IF d > 0 THEN low > 2^(d - 1) ELSE j < Len(s) /\ s[j + 1] > 2^23
        below == \E i \in (j + (IF d > 0 THEN 1 ELSE 2))..Len(s) : s[i] # 0
        up    == more \/ (half /\ (below \/ kept % 2 = 1))
    IN  float_carry([i \in 1..Len(s) |->
                        IF i < j THEN s[i]
                        ELSE IF i = j THEN 2^d * (kept + IF up THEN 1 ELSE 0)
                        ELSE 0], Len(s))

\* a float keeps 53 significant bits: with the leading one of s at bit e of
\* limb i, the bits from 53 places below it on are rounded away
float_round(s) ==
    IF \A i \in 1..Len(s) : s[i] = 0 THEN s
    ELSE LET i   == CHOOSE l \in 1..Len(s) : s[l] # 0 /\ \A h \in 1..(l - 1) : s[h] = 0
             cut == 24 * (i - 1) - float_exponent2(s[i]) + 52
             j   == 1 + (cut + 23) \div 24
         IN  IF j > Len(s) THEN s ELSE float_round_bits(s, j, 24 * (j - 1) - cut)

\* x + y on distances: the sum of the limbs, seven of each, rounded, and
\* without its last limbs that are 0
float_add(x, y) ==
    IF x = NaNMetres \/ y = NaNMetres THEN NaNMetres
    ELSE LET limb(z, i) == IF i <= Len(z) THEN z[i] ELSE 0
             RECURSIVE distance(_)
             distance(s) ==
                 IF Len(s) > 3 /\ s[Len(s)] = 0
                 THEN distance(SubSeq(s, 1, Len(s) - 1)) ELSE s
         IN  distance(float_round(float_carry(
                 [i \in 1..7 |-> limb(x, i) + limb(y, i)], 7)))

\* x < y on distances
float_lt(x, y) ==
    /\ x # NaNMetres
    /\ y # NaNMetres
    /\ LET limb(z, i) == IF i <= Len(z) THEN z[i] ELSE 0
       IN  \E i \in 1..7 : /\ limb(x, i) < limb(y, i)
                           /\ \A h \in 1..(i - 1) : limb(x, h) = limb(y, h)

(***************************************************************************)
(* networkx.Graph as create_graph uses it: the nodes in insertion order    *)
(* and, per node, its neighbours in insertion order with the edge weight.  *)
(***************************************************************************)

EmptyGraph == [nodes |-> <<>>, adj |-> <<>>]

\* n in G: a dict finds a key that is equal to n, and two tuples are equal
\* when their elements are the same objects or equal
HasNode(G, n) == \E i \in 1..Len(G.nodes) : as_key(G.nodes[i]) = as_key(n)

NodeIndex(G, n) == CHOOSE i \in 1..Len(G.nodes) : as_key(G.nodes[i]) = as_key(n)

\* the neighbour list of n: a sequence of [to, weight]
Adj(G, n) == G.adj[NodeIndex(G, n)]

\* add_node without the membership test: a coordinate seen again is a new node
add_node_again(G, n) ==
    [nodes |-> Append(G.nodes, n), adj |-> Append(G.adj, <<>>)]

\* a node that is equal to n stays as it is, the object first added
add_node(G, n) ==
    IF HasNode(G, n) THEN G
    ELSE [nodes |-> Append(G.nodes, n), adj |-> Append(G.adj, <<>>)]

\* adj[u][v] = {weight: w}: a new neighbour goes last, a known one keeps its
\* place and its key object and takes the new weight
set_adj(G, u, v, w) ==
    LET i   == NodeIndex(G, u)
        old == G.adj[i]
        new == IF \E k \in 1..Len(old) : as_key(old[k].to) = as_key(v)
               THEN [k \in 1..Len(old) |->
                        IF as_key(old[k].to) = as_key(v)
                        THEN [to |-> old[k].to, weight |-> w] ELSE old[k]]
               ELSE Append(old, [to |-> v, weight |-> w])
    IN  [G EXCEPT !.adj[i] = new]

add_edge(G, u, v, w) ==
    set_adj(set_adj(add_node(add_node(G, u), v), u, v, w), v, u, w)

\* tuple(neighbor), line 57: a JSON array becomes the tuple of its elements,
\* a JSON string the tuple of its characters, a JSON object that of its
\* keys; a number and null are not iterable
tuple(j) == iter(j)

\* a tuple that holds a list or a dict has no hash
Hashable(n) == \A i \in 1..Len(n) : n[i].t \notin {"list", "dict"}

\* lines 56-59, from the i-th neighbour on
RECURSIVE add_neighbors(_, _, _, _)
\* line 59, w the result of calculate_distance(node, neighbor)
add_weighted_edge(G, node, neighbor, neighbors, i, w) ==
    IF ~w.ok THEN w
    ELSE add_neighbors(add_edge(G, node, neighbor, w.val), node, neighbors, i + 1)

\* lines 57-59, nb the result of tuple(neighbor)
add_neighbor(G, node, neighbors, i, nb) ==
    IF ~nb.ok THEN nb
    ELSE IF ~Hashable(nb.val) THEN Raise("TypeError")
    ELSE add_weighted_edge(add_node(G, nb.val), node, nb.val, neighbors, i,
                           calculate_distance(node, nb.val))

add_neighbors(G, node, neighbors, i) ==
    IF i > Len(neighbors) THEN Ok(G)
    ELSE add_neighbor(G, node, neighbors, i, tuple(neighbors[i]))

\* the tuple that line 54 makes for the i-th item: each nan in it is a float
\* object of its own
new_floats(node, i) ==
    IF ~node.ok THEN node
    ELSE Ok([j \in 1..Len(node.val) |->
                IF node.val[j].c = "nan" THEN NaN(<<i, j>>) ELSE node.val[j]])

\* lines 53-59, from the i-th item of the mapping on
RECURSIVE add_items(_, _, _)
add_items_next(items, i, r) == IF ~r.ok THEN r ELSE add_items(r.val, items, i + 1)

\* line 56, neighbors the result of iterating over the value of the item
add_item_neighbors(G, items, i, node, neighbors) ==
    IF ~neighbors.ok THEN neighbors
    ELSE add_items_next(items, i, add_neighbors(G, node, neighbors.val, 1))

\* lines 54-59, node the result of parsing the key
add_item(G, items, i, node) ==
    IF ~node.ok THEN node
    ELSE add_item_neighbors(add_node(G, node.val), items, i, node.val,
                            iter(items[i].value))

add_items(G, items, i) ==
    IF i > Len(items) THEN Ok(G)
    ELSE add_item(G, items, i, new_floats(parse_node(items[i].key), i))

\* lines 52-60: only a dict has items()
create_graph(data) ==
    IF data.t # "dict" THEN Raise("AttributeError")
    ELSE add_items(EmptyGraph, data.v, 1)

(***************************************************************************)
(* create_kd_tree, lines 74-84: scipy.spatial.KDTree(G.nodes()).  The data *)
(* of the tree is the node enumeration of the graph at construction; an    *)
(* empty or ragged enumeration is not an (n, m) array and raises, and so   *)
(* does one that holds inf or nan.                                         *)
(***************************************************************************)

KDTree(data) ==
    IF \/ data = <<>>
       \/ \E i, j \in 1..Len(data) : Len(data[i]) # Len(data[j])
       \/ \E i \in 1..Len(data) : \E j \in 1..Len(data[i]) : data[i][j].c # "fin"
    THEN Raise("ValueError")
    ELSE Ok([data |-> data])

\* line 82 reads app.config['graph']
create_kd_tree(cfg) ==
    IF cfg.graph = Absent THEN RaiseKey("graph") ELSE KDTree(cfg.graph.nodes)

\* squared Euclidean distance in (lat, lon) degree space, the metric of
\* KDTree, in units of 1/256
SqDist(p, q) ==
    (Sixteenths(p[1]) - Sixteenths(q[1])) * (Sixteenths(p[1]) - Sixteenths(q[1]))
    + (Sixteenths(p[2]) - Sixteenths(q[2])) * (Sixteenths(p[2]) - Sixteenths(q[2]))

\* kd_tree.query(point)[1]: the position of the nearest data point.  With at
\* most leafsize (10) points the tree is one leaf, scanned in data order
\* keeping a point only if strictly nearer: the first minimum wins.
kd_query(kd_tree, point) ==
    LET d == kd_tree.data
    IN  CHOOSE i \in 1..Len(d) :
            /\ \A j \in 1..Len(d) : SqDist(point, d[i]) <= SqDist(point, d[j])
            /\ \A j \in 1..(i - 1) : SqDist(point, d[j]) > SqDist(point, d[i])

\* lines 86-99; a query point of another dimension than the data raises
find_closest_point(cfg, point) ==
    IF cfg.graph = Absent THEN RaiseKey("graph")
    ELSE IF cfg.kd_tree = Absent THEN RaiseKey("kd_tree")
    ELSE IF Len(cfg.kd_tree.data[1]) # Len(point) THEN Raise("ValueError")
    ELSE Ok(cfg.graph.nodes[kd_query(cfg.kd_tree, point)])

(***************************************************************************)
(* find_shortest_path, lines 101-115: networkx.dijkstra_path.  The search  *)
(* state is that of networkx's _dijkstra_multisource: dist (finalised),    *)
(* seen (tentative), paths, the heap of (distance, counter, node) and the  *)
(* counter.  A dictionary is a function on what it compares its keys by,   *)
(* as_key(n) for the node n.                                                  *)
(***************************************************************************)

EmptyDict == [x \in {} |-> 0]

\* the for loop over G_succ[v].items(), from the i-th neighbour on
RECURSIVE relax(_, _, _, _)
\* relax_one that never lowers a tentative distance: the first route seen
\* to a node is kept
relax_one_keeps_first(st, v, nbrs, i, u, vu_dist) ==
    IF as_key(u) \in DOMAIN st.dist \/ as_key(u) \in DOMAIN st.seen
    THEN relax(st, v, nbrs, i + 1)
    ELSE relax([st EXCEPT
                   !.seen   = (as_key(u) :> vu_dist) @@ @,
                   !.fringe = @ \cup {<<vu_dist, st.c, u>>},
                   !.c      = @ + 1,
                   !.paths  = (as_key(u) :> Append(st.paths[as_key(v)], u)) @@ @],
               v, nbrs, i + 1)

\* one neighbour u, with vu_dist = dist[v] + cost
relax_one(st, v, nbrs, i, u, vu_dist) ==
    IF as_key(u) \in DOMAIN st.dist
    THEN IF float_lt(vu_dist, st.dist[as_key(u)])
         THEN Raise("ValueError")
         ELSE relax(st, v, nbrs, i + 1)
    ELSE IF as_key(u) \notin DOMAIN st.seen \/ float_lt(vu_dist, st.seen[as_key(u)])
         THEN relax([st EXCEPT
                        !.seen   = (as_key(u) :> vu_dist) @@ @,
                        !.fringe = @ \cup {<<vu_dist, st.c, u>>},
                        !.c      = @ + 1,
                        !.paths  = (as_key(u) :> Append(st.paths[as_key(v)], u)) @@ @],
                    v, nbrs, i + 1)
         ELSE relax(st, v, nbrs, i + 1)

relax(st, v, nbrs, i) ==
    IF i > Len(nbrs) THEN Ok(st)
    ELSE relax_one(st, v, nbrs, i, nbrs[i].to, float_add(st.dist[as_key(v)], nbrs[i].weight))

\* heappop: the least (distance, counter, node); counters are unique
HeapTop(fringe) ==
    CHOOSE e \in fringe :
        \A f \in fringe : float_lt(e[1], f[1]) \/ (e[1] = f[1] /\ e[2] <= f[2])

\* the while loop of _dijkstra_multisource
RECURSIVE dijkstra_loop(_, _, _)
dijkstra_next(G, r, target) == IF ~r.ok THEN r ELSE dijkstra_loop(G, r.val, target)

\* (d, _, v) was popped; st is the state without it
dijkstra_pop(G, st, target, d, v) ==
    IF as_key(v) \in DOMAIN st.dist THEN dijkstra_loop(G, st, target)
    ELSE IF as_key(v) = as_key(target) THEN Ok([st EXCEPT !.dist = (as_key(v) :> d) @@ @])
    ELSE dijkstra_next(G, relax([st EXCEPT !.dist = (as_key(v) :> d) @@ @], v,
                                Adj(G, v), 1),
                       target)

dijkstra_top(G, st, target, top) ==
    dijkstra_pop(G, [st EXCEPT !.fringe = @ \ {top}], target, top[1], top[3])

dijkstra_loop(G, st, target) ==
    IF st.fringe = {} THEN Ok(st) ELSE dijkstra_top(G, st, target, HeapTop(st.fringe))

\* dijkstra_result that answers an unreached target with the path to the
\* farthest node reached
dijkstra_result_partial(r, target) ==
    IF ~r.ok THEN r
    ELSE IF as_key(target) \in DOMAIN r.val.dist
         THEN Ok(r.val.paths[as_key(target)])
         ELSE Ok(r.val.paths[CHOOSE n \in DOMAIN r.val.dist :
                                 \A m \in DOMAIN r.val.dist :
                                     ~float_lt(r.val.dist[n], r.val.dist[m])])

\* single_source_dijkstra: the path recorded for the target, if it was reached
dijkstra_result(r, target) ==
    IF ~r.ok THEN r
    ELSE IF as_key(target) \in DOMAIN r.val.dist
         THEN Ok(r.val.paths[as_key(target)])
         ELSE Raise("NetworkXNoPath")

\* nx.dijkstra_path(G, source, target, weight="weight")
dijkstra_path(G, source, target) ==
    IF ~HasNode(G, source) THEN Raise("NodeNotFound")
    ELSE IF as_key(source) = as_key(target) THEN Ok(<<target>>)
    ELSE dijkstra_result(
             dijkstra_loop(G, [dist   |-> EmptyDict,
                               seen   |-> (as_key(source) :> <<0, 0, 0>>),
                               paths  |-> (as_key(source) :> <<source>>),
                               fringe |-> {<<<<0, 0, 0>>, 0, source>>},
                               c      |-> 1], target),
             target)

\* lines 111-115: the path as a list, or None when networkx reports no path
path_or_none(r) ==
    IF r.ok THEN Ok(List(r.val))
    ELSE IF r.exc = "NetworkXNoPath" THEN Ok(None)
    ELSE r

\* lines 101-115
find_shortest_path(cfg, start_point, end_point) ==
    IF cfg.graph = Absent THEN RaiseKey("graph")
    ELSE path_or_none(dijkstra_path(cfg.graph, start_point, end_point))

(***************************************************************************)
(* generate_kml_file, lines 117-146.  The string that k.to_string returns  *)
(* is kept as the tree of elements an XML parser reads from it: each       *)
(* element with its local tag, its id attribute, its text and its          *)
(* children, in document order.  Of the elements fastkml writes, the tree  *)
(* holds those the code fills in: the names, the geometries and their      *)
(* coordinates.  Every text is the sequence of its characters.             *)
(***************************************************************************)

\* str(n) of a natural number n
RECURSIVE str_int(_)
str_int(n) ==
    LET digit == <<"0", "1", "2", "3", "4", "5", "6", "7", "8", "9">>
    IN  IF n < 10 THEN <<digit[n + 1]>>
        ELSE Append(str_int(n \div 10), digit[(n % 10) + 1])

\* '%f' % x: x with six decimal places, correctly rounded from the float.
\* a is |x| * 10^k.  The float differs from the decimal by less than the
\* decimal's distance to any tie but its own, so only a decimal of seven
\* places that ends in 5 needs the float: if a / 10^7 is a float itself
\* (5^7 divides a) the tie goes to the even digit, otherwise to the side on
\* which the nearest float lies, read off the remainder of a * 2^s by 10^7,
\* s the shift that brings a / 10^7 into [2^52, 2^53).
format_f(x) ==
    IF x.c = "nan" THEN <<"n", "a", "n">>
    ELSE IF x.c = "inf"
    THEN (IF x.n < 0 THEN <<"-">> ELSE <<>>) \o <<"i", "n", "f">>
    ELSE
    LET RECURSIVE doubled(_, _)
        doubled(r, j) ==
            IF j < 7 THEN (r * 2^j) % 10^7 ELSE doubled((r * 128) % 10^7, j - 7)
        shift(a) ==
            IF a >= 10^7
            THEN 52 - (CHOOSE j \in 0..7 :
                          2^j <= a \div 10^7 /\ a \div 10^7 < 2^(j + 1))
            ELSE 52 + (CHOOSE j \in 1..24 :
                          2^(j - 1) <= (10^7 - 1) \div a /\ (10^7 - 1) \div a < 2^j)
        float_above(a) ==
            IF a % 78125 = 0 THEN (a \div 10) % 2 = 1
            ELSE doubled(a % 10^7, shift(a)) > 5 * 10^6
        rounds_up(a, rem, unit) ==
            IF rem = unit - rem THEN float_above(a) ELSE rem > unit - rem
        millionths(a, f, k) ==
            IF k <= 6 THEN f * 10^(6 - k)
            ELSE IF k >= 16 THEN 0
            ELSE (f \div 10^(k - 6))
                 + (IF rounds_up(a, f % 10^(k - 6), 10^(k - 6)) THEN 1 ELSE 0)
        six(q) == [i \in 1..(6 - Len(str_int(q))) |-> "0"] \o str_int(q)
        text(neg, ip, q) ==
            (IF neg THEN <<"-">> ELSE <<>>)
            \o str_int(ip + q \div 10^6) \o <<".">> \o six(q % 10^6)
        parts(neg, a, k) ==
            text(neg, IF k <= 9 THEN a \div 10^k ELSE 0,
                 millionths(a, IF k <= 9 THEN a % 10^k ELSE a, k))
    IN  parts(x.n < 0 \/ x = NegZero, IF x.n < 0 THEN 0 - x.n ELSE x.n, x.k)

\* line 130: [(lon, lat) for lat, lon in shortest_path]
corrected_path(shortest_path) ==
    [i \in 1..Len(shortest_path) |-> <<shortest_path[i][2], shortest_path[i][1]>>]

\* line 134: shapely's Point(lon, lat), a geometry of one coordinate
Point(lon, lat) == <<lon, lat>>

\* shapely's LineString takes no single coordinate: it raises for exactly one
LineString(coords) ==
    IF Len(coords) = 1 THEN Raise("ValueError") ELSE Ok(coords)

\* the text fastkml writes into <coordinates>: '%f,%f' % c for every
\* coordinate c of the geometry, joined by blanks
etree_coordinates(coordinates) ==
    LET RECURSIVE joined(_)
        joined(i) ==
            (IF i = 1 THEN <<>> ELSE joined(i - 1) \o <<" ">>)
            \o format_f(coordinates[i][1]) \o <<",">> \o format_f(coordinates[i][2])
    IN  IF coordinates = <<>> THEN <<>> ELSE joined(Len(coordinates))

Element(tag, id, text, children) ==
    [tag |-> tag, id |-> id, text |-> text, children |-> children]

\* lines 135-136 and 141-142: a placemark with its name and its geometry,
\* as to_string writes it
Placemark(id, name, geometry, coordinates) ==
    Element("Placemark", id, <<>>,
            << Element("name", <<>>, name, <<>>),
               Element(geometry, <<>>, <<>>,
                       <<Element("coordinates", <<>>,
                                 etree_coordinates(coordinates), <<>>)>>) >>)

\* lines 133-137: one point placemark per node, f'point_{index}' and
\* f'Point {index + 1}'
point_placemarks(cp) ==
    [i \in 1..Len(cp) |->
        Placemark(<<"p", "o", "i", "n", "t", "_">> \o str_int(i - 1),
                  <<"P", "o", "i", "n", "t", " ">> \o str_int(i),
                  "Point", <<Point(cp[i][1], cp[i][2])>>)]

\* line 146: k.to_string(prettyprint=True), features the placemarks of the
\* document in the order of their doc.append
to_string(features) ==
    Element("kml", <<>>, <<>>,
            <<Element("Document", <<"d", "o", "c", "_", "i", "d">>, <<>>,
                      <<Element("name", <<>>,
                                <<"S", "h", "o", "r", "t", "e", "s", "t", " ",
                                  "P", "a", "t", "h">>, <<>>)>>
                      \o features)>>)

\* lines 140-146, line the result of LineString(corrected_path)
kml_document(cp, line) ==
    IF ~line.ok THEN line
    ELSE IF line.val = <<>> THEN Raise("IndexError")
    ELSE Ok(to_string(Append(point_placemarks(cp),
                Placemark(<<"p", "a", "t", "h">>,
                          <<"S", "h", "o", "r", "t", "e", "s", "t", " ",
                            "P", "a", "t", "h">>,
                          "LineString", line.val))))

\* line 130 unpacks every node into (lat, lon)
generate_kml_file(shortest_path) ==
    IF \E i \in 1..Len(shortest_path) : Len(shortest_path[i]) # 2
    THEN Raise("ValueError")
    ELSE kml_document(corrected_path(shortest_path),
                      LineString(corrected_path(shortest_path)))

(***************************************************************************)
(* find_path, lines 156-199, and render_page, lines 148-154.  The result   *)
(* is the response together with the calls the handler made into the core, *)
(* in order.                                                               *)
(***************************************************************************)

Response(status, body) == [status |-> status, body |-> body]

ErrorResponse(message, status) == Response(status, [error |-> message])

\* an exception that leaves the view or the before_request hook: Flask
\* answers 500
Unhandled(r) == Response(500, [exception |-> r.exc])

Call(fn, args, ret) == [fn |-> fn, args |-> args, ret |-> ret]

Answer(response, done) == [resp |-> response, calls |-> done]

\* float(x) of a JSON value: a number converts, a string is parsed, anything
\* else is a TypeError
json_float(x) ==
    IF x.t = "num" THEN Ok(x)
    ELSE IF x.t = "str" THEN float(x.v)
    ELSE Raise("TypeError")

key_start == <<"s", "t", "a", "r", "t">>

key_end == <<"e", "n", "d">>

key_lat == <<"l", "a", "t">>

key_lon == <<"l", "o", "n">>

\* float(request.json[which][field]), b the result of the second subscript
coordinate_float(b) == IF ~b.ok THEN b ELSE json_float(b.val)

\* a the result of request.json[which]
coordinate_field(a, field) ==
    IF ~a.ok THEN a ELSE coordinate_float(getitem(a.val, field))

coordinate(json, which, field) == coordinate_field(getitem(json, which), field)

\* the except clause of line 198 catches KeyError alone
Caught(r, done) ==
    IF r.exc = "KeyError"
    THEN Answer(ErrorResponse(<<"Missing data ", r.key>>, 400), done)
    ELSE Answer(Unhandled(r), done)

\* line 194, kml the result of generate_kml_file
encoded(shortest_path, kml, done) ==
    IF ~kml.ok THEN Caught(kml, done)
    ELSE Answer(Response(200, [shortest_path |-> shortest_path,
                               kml_content   |-> kml.val]), done)

\* line 193
encode(shortest_path, kml, done) ==
    encoded(shortest_path, kml,
            Append(done, Call("generate_kml_file", <<shortest_path>>, kml)))

\* lines 192-196, sp the result of find_shortest_path
searched(sp, done) ==
    IF ~sp.ok THEN Caught(sp, done)
    ELSE IF sp.val.t = "list" /\ sp.val.v # <<>>
    THEN encode(sp.val.v, generate_kml_file(sp.val.v), done)
    ELSE Answer(ErrorResponse(<<"No path found between the provided points.">>, 404),
                done)

search_logged(sp, start_closest, end_closest, done) ==
    searched(sp, Append(done,
                        Call("find_shortest_path", <<start_closest, end_closest>>, sp)))

\* line 190
search(cfg, start_closest, end_closest, done) ==
    search_logged(find_shortest_path(cfg, start_closest, end_closest),
                  start_closest, end_closest, done)

\* lines 186-190, sc and ec the results of the two find_closest_point calls
snapped(cfg, sc, ec, done) ==
    IF ~ec.ok THEN Caught(ec, done)
    ELSE IF as_key(sc.val) = as_key(ec.val)
    THEN Answer(ErrorResponse(
             <<"Start and end points are too close; please provide more distant points">>,
             404), done)
    ELSE search(cfg, sc.val, ec.val, done)

snap_end_logged(cfg, sc, end_point, ec, done) ==
    snapped(cfg, sc, ec, Append(done, Call("find_closest_point", <<end_point>>, ec)))

\* line 184
snap_end(cfg, sc, end_point, done) ==
    IF ~sc.ok THEN Caught(sc, done)
    ELSE snap_end_logged(cfg, sc, end_point, find_closest_point(cfg, end_point), done)

snap_start_logged(cfg, start_point, end_point, sc) ==
    snap_end(cfg, sc, end_point, <<Call("find_closest_point", <<start_point>>, sc)>>)

\* route without the comparison of the raw points: equal points are snapped
route_unchecked(cfg, start_point, end_point) ==
    snap_start_logged(cfg, start_point, end_point, find_closest_point(cfg, start_point))

\* lines 179-183
route(cfg, start_point, end_point) ==
    IF as_key(start_point) = as_key(end_point)
    THEN Answer(ErrorResponse(<<"Start and end points cannot be the same">>, 404), <<>>)
    ELSE snap_start_logged(cfg, start_point, end_point,
                           find_closest_point(cfg, start_point))

ValidLat(lat) == Le(Whole(-90), lat) /\ Le(lat, Whole(90))

ValidLon(lon) == Le(Whole(-180), lon) /\ Le(lon, Whole(180))

\* lines 169-177, c the four conversions of lines 164-167 in order
validate(cfg, c) ==
    IF \E i \in 1..4 : ~c[i].ok THEN Caught(FirstRaised(c), <<>>)
    ELSE IF ~ValidLat(c[1].val) \/ ~ValidLon(c[2].val)
    THEN Answer(ErrorResponse(
             <<"Invalid start point input! Please enter valid coordinates.">>, 400), <<>>)
    ELSE IF ~ValidLat(c[3].val) \/ ~ValidLon(c[4].val)
    THEN Answer(ErrorResponse(
             <<"Invalid end point input! Please enter valid coordinates.">>, 400), <<>>)
    ELSE route(cfg, <<c[1].val, c[2].val>>, <<c[3].val, c[4].val>>)

find_path(cfg, json) ==
    validate(cfg, << coordinate(json, key_start, key_lat),
                     coordinate(json, key_start, key_lon),
                     coordinate(json, key_end, key_lat),
                     coordinate(json, key_end, key_lon) >>)

render_page == Answer(Response(200, [page |-> "index.html"]), <<>>)

\* Flask's dispatch of a request to its view function
view(cfg, r) == IF r.method = "GET" THEN render_page ELSE find_path(cfg, r.json)

(***************************************************************************)
(* initialize, lines 19-31, run by Flask before every request.             *)
(***************************************************************************)

NoConfig == [graph |-> Absent, kd_tree |-> Absent]

Initialized(flag, cfg, graphs, trees) ==
    [ok |-> TRUE, initialized |-> flag, config |-> cfg, graphs |-> graphs, trees |-> trees]

InitializeRaised(r, cfg, graphs) ==
    [ok |-> FALSE, exc |-> r.exc, initialized |-> FALSE, config |-> cfg,
     graphs |-> graphs, trees |-> 0]

\* lines 30-31, k the result of create_kd_tree
initialize_tree(cfg, k) ==
    IF ~k.ok THEN InitializeRaised(k, cfg, 1)
    ELSE Initialized(TRUE, [cfg EXCEPT !.kd_tree = k.val], 1, 1)

initialize_published(cfg) == initialize_tree(cfg, create_kd_tree(cfg))

\* lines 29-31, g the result of create_graph
initialize_graph(cfg, g) ==
    IF ~g.ok THEN InitializeRaised(g, cfg, 0)
    ELSE initialize_published([cfg EXCEPT !.graph = g.val])

\* The whole function as one thread runs it when no other thread runs: the
\* flag and app.config afterwards, how many graphs and trees were built, and
\* whether it returned (ok) or raised.  The server below takes initialize
\* statement by statement; this tells whether the construction succeeds.
initialize(flag, cfg, data) ==
    IF flag THEN Initialized(flag, cfg, 0, 0)
    ELSE initialize_graph(cfg, create_graph(data))

(***************************************************************************)
(* Inputs.                                                                 *)
(***************************************************************************)

MaxRequests == 3

MaxKeys == 2

MaxNbrs == 2

MaxPathLen == 3

\* two worker threads: enough for two first requests to overlap
Threads == {"t1", "t2"}

Key_0_0 == <<"(", "0", ",", " ", "0", ")">>

Key_0_0_float == <<"(", "0", ".", "0", ",", " ", "0", ".", "0", ")">>

Key_0_60 == <<"(", "0", ",", " ", "6", "0", ")">>

Key_60_0 == <<"(", "6", "0", ",", " ", "0", ")">>

Key_0_120 == <<"(", "0", ",", " ", "1", "2", "0", ")">>

\* a literal with an exponent, after a vertical tab and before a no-break
\* space: 120.0
Key_0_120_exp == <<"(", "0", ",", " ", "", "1", ".", "2", "e", "2", " ", ")">>

Key_0_m120 == <<"(", "0", ",", " ", "-", "1", "2", "0", ")">>

\* no blank after the comma: split(', ') leaves one token, "0,60"
Key_nospace == <<"(", "0", ",", "6", "0", ")">>

Key_nan_0 == <<"(", "n", "a", "n", ",", " ", "0", ")">>

Key_NaN_0 == <<"(", "N", "a", "N", ",", " ", "0", ")">>

\* the tuple (lat, lon) of whole degrees
Node(lat, lon) == <<Whole(lat), Whole(lon)>>

\* the JSON array [lat, lon]
Pair(lat, lon) == List(Node(lat, lon))

\* diamond (0,0)-(60,0)-(0,120), (0,0)-(0,60)-(0,120) and a second component
File_two_components ==
    Dict(<< Item(Key_0_0,    List(<<Pair(60, 0), Pair(0, 60)>>)),
            Item(Key_0_120,  List(<<Pair(60, 0), Pair(0, 60)>>)),
            Item(Key_0_m120, List(<<Pair(0, -60)>>)) >>)

\* (0,0)-(60,0)-(0,180) and (0,0)-(0,180) are both half a great circle: the
\* float sums of their weights differ in the last bit
File_half_circle ==
    Dict(<< Item(Key_0_0,   List(<<Pair(60, 0), Pair(0, 180)>>)),
            Item(Key_60_0,  List(<<Pair(0, 180)>>)),
            Item(Key_0_60,  List(<<Pair(0, 0), Pair(0, 120)>>)),
            Item(Key_0_120, List(<<Pair(0, 180)>>)) >>)

File_bad_key ==
    Dict(<< Item(Key_0_0, List(<<Pair(0, 60)>>)), Item(Key_nospace, List(<<>>)) >>)

\* a neighbour that is a number, not an array
File_bad_neighbor ==
    Dict(<< Item(Key_0_0, List(<<Pair(0, 60), Whole(5)>>)) >>)

\* a neighbour that is a string of three characters
File_text_neighbor ==
    Dict(<< Item(Key_0_0, List(<<Pair(0, 60), Str(<<"a", "b", "c">>)>>)) >>)

\* nan coordinates, two from keys and one from the arrays: the graph is
\* built, but its nodes are no data for a k-d tree
File_nan ==
    Dict(<< Item(Key_nan_0, List(<<Pair(0, 0), List(<<JsonNaN, Whole(0)>>)>>)),
            Item(Key_NaN_0, List(<<List(<<JsonNaN, Whole(0)>>)>>)) >>)

\* a document that is an array
\* the last is the empty document, {}
GraphFiles ==
    { File_two_components, File_bad_key, File_bad_neighbor, File_text_neighbor,
      File_nan, List(<<>>), Dict(<<>>) }

\* every mapping of at most MaxKeys distinct keys of KeyTexts, each to a list
\* of at most MaxNbrs of NeighborValues
AdjacencyInputs ==
    LET KeyTexts == {Key_0_0, Key_0_0_float, Key_0_120_exp}
        NeighborValues == {Pair(60, 0), Pair(0, 120)}
        NeighborLists == UNION {[1..n -> NeighborValues] : n \in 0..MaxNbrs}
        Items == {Item(k, List(ns)) : k \in KeyTexts, ns \in NeighborLists}
    IN  UNION { {Dict(d) : d \in {e \in [1..n -> Items] :
                                    \A i, j \in 1..n : i # j => e[i].key # e[j].key}} :
                   n \in 0..MaxKeys }

\* the JSON object {"lat": lat, "lon": lon}
LatLon(lat, lon) == Dict(<<Item(key_lat, lat), Item(key_lon, lon)>>)

WholePoint(lat, lon) == LatLon(Whole(lat), Whole(lon))

\* the JSON object {"start": start, "end": end}
Query(start, end) == Dict(<<Item(key_start, start), Item(key_end, end)>>)

\* "start" and "end" objects that pass validation: three snap onto the
\* diamond of File_two_components ((10.5, 50.25), given as texts with a
\* blank, and (0, 60) onto the same node), (0, -120) onto its second
\* component, (90, 180) lies on the range's border
ValidPoints ==
    { WholePoint(0, 0), WholePoint(0, 60),
      LatLon(Str(<<"1", "0", ".", "5">>), Str(<<" ", "5", "0", ".", "2", "5", "0">>)),
      WholePoint(0, -120), WholePoint(90, 180) }

\* out of range, not a number, a key missing, not an object
BadPoints ==
    { WholePoint(91, 0), WholePoint(0, -181), LatLon(Decimal(-9025, 2), Whole(0)),
      LatLon(Whole(0), Decimal(1805, 1)),
      LatLon(Str(<<"a", "b", "c">>), Whole(0)),
      LatLon(Whole(0), None),
      Dict(<<Item(key_lat, Whole(0))>>),
      Whole(5) }

Post(json) == [method |-> "POST", json |-> json]

Requests ==
    {[method |-> "GET"]}
    \cup {Post(Query(a, b)) : a \in ValidPoints, b \in ValidPoints}
    \cup {Post(Query(a, WholePoint(0, 0))) : a \in BadPoints}
    \cup {Post(Query(WholePoint(0, 0), b)) :
              b \in {WholePoint(0, -181), LatLon(Whole(0), None)}}
    \cup {Post(Dict(<<Item(key_start, WholePoint(0, 0))>>)),
          Post(Dict(<<Item(key_end, WholePoint(0, 0))>>))}

\* queries between different points: nodes of File_two_components and
\* File_half_circle, and (60, 120), which lies nearer to (0, 120) in degrees
\* and nearer to (60, 0) on the sphere
CoreRequests ==
    LET CorePoints == {Node(0, 0), Node(0, 120), Node(0, -120), Node(60, 120),
                       Node(0, 180)}
    IN  {Post(Query(LatLon(pq[1][1], pq[1][2]), LatLon(pq[2][1], pq[2][2]))) :
            pq \in {x \in CorePoints \X CorePoints : x[1] # x[2]}}

\* paths of at most MaxPathLen nodes: whole degrees, fractions of two and
\* of six places, and fractions of seven places, one of them a tie of the
\* sixth
KmlPaths ==
    UNION {[1..n -> { Node(0, 120),
                      <<NegZero, Whole(10)>>,
                      <<Decimal(105, 1), Decimal(5025, 2)>>,
                      <<Decimal(-60000001, 6), Decimal(5, 1)>>,
                      <<Decimal(321234567, 7), Decimal(-1234565, 7)>> }] :
              n \in 1..MaxPathLen}

(***************************************************************************)
(* The server: the worker threads of Threads, each serving one request at  *)
(* a time.  A request first runs initialize (the before_request hook), then *)
(* its view function.  Between the statements of initialize the threads    *)
(* interleave.                                                             *)
(***************************************************************************)

\* load_json_file(GRAPH_FILE), lines 33-42: the file does not change
load_json_file == graph_data

Idle ==
    /\ initialized = FALSE
    /\ config = NoConfig
    /\ pc = [t \in Threads |-> "idle"]
    /\ req = [t \in Threads |-> None]
    /\ resp = [t \in Threads |-> None]
    /\ calls = [t \in Threads |-> <<>>]
    /\ served = 0
    /\ built = [graph |-> 0, kd_tree |-> 0]

Init ==
    /\ graph_data \in GraphFiles
    /\ Idle
    /\ probe = None

\* a request arrives and initialize tests the flag, line 27
Receive(t, r) ==
    /\ pc[t] \in {"idle", "done", "aborted"}
    /\ served < MaxRequests
    /\ served' = served + 1
    /\ req' = [req EXCEPT ![t] = r]
    /\ resp' = [resp EXCEPT ![t] = None]
    /\ calls' = [calls EXCEPT ![t] = <<>>]
    /\ pc' = [pc EXCEPT ![t] = IF initialized THEN "view" ELSE "load"]
    /\ UNCHANGED <<graph_data, initialized, config, built, probe>>

\* the exception r ends the request before its view function
Abort(t, r) ==
    /\ resp' = [resp EXCEPT ![t] = Unhandled(r)]
    /\ pc' = [pc EXCEPT ![t] = "aborted"]
    /\ UNCHANGED <<config, built>>

\* PublishGraph that swallows the exception and goes on with an empty graph
PublishGraph_anyway(t, g) ==
    /\ config' = [config EXCEPT !.graph = IF g.ok THEN g.val ELSE EmptyGraph]
    /\ built' = [built EXCEPT !.graph = @ + 1]
    /\ pc' = [pc EXCEPT ![t] = "kd_tree"]
    /\ UNCHANGED resp

\* line 29, g the result of create_graph
PublishGraph(t, g) ==
    IF g.ok
    THEN /\ config' = [config EXCEPT !.graph = g.val]
         /\ built' = [built EXCEPT !.graph = @ + 1]
         /\ pc' = [pc EXCEPT ![t] = "kd_tree"]
         /\ UNCHANGED resp
    ELSE Abort(t, g)

\* lines 28-29
LoadGraph(t) ==
    /\ pc[t] = "load"
    /\ PublishGraph(t, create_graph(load_json_file))
    /\ UNCHANGED <<graph_data, initialized, req, calls, served, probe>>

\* line 30, k the result of create_kd_tree
PublishKdTree(t, k) ==
    IF k.ok
    THEN /\ config' = [config EXCEPT !.kd_tree = k.val]
         /\ built' = [built EXCEPT !.kd_tree = @ + 1]
         /\ pc' = [pc EXCEPT ![t] = "flag"]
         /\ UNCHANGED resp
    ELSE Abort(t, k)

\* line 30
BuildKdTree(t) ==
    /\ pc[t] = "kd_tree"
    /\ PublishKdTree(t, create_kd_tree(config))
    /\ UNCHANGED <<graph_data, initialized, req, calls, served, probe>>

\* line 31
SetInitialized(t) ==
    /\ pc[t] = "flag"
    /\ initialized' = TRUE
    /\ pc' = [pc EXCEPT ![t] = "view"]
    /\ UNCHANGED <<graph_data, config, req, resp, calls, served, built, probe>>

Respond(t, out) ==
    /\ resp' = [resp EXCEPT ![t] = out.resp]
    /\ calls' = [calls EXCEPT ![t] = out.calls]
    /\ pc' = [pc EXCEPT ![t] = "done"]

\* a view whose snapping inserts the query point into the shared graph
View_adding_point(t) ==
    /\ pc[t] = "view"
    /\ Respond(t, view(config, req[t]))
    /\ config' = IF config.graph # Absent /\ view(config, req[t]).calls # <<>>
                 THEN [config EXCEPT
                          !.graph = add_node(@, view(config, req[t]).calls[1].args[1])]
                 ELSE config
    /\ UNCHANGED <<graph_data, initialized, req, served, built, probe>>

\* the view function of the request runs and answers
View(t) ==
    /\ pc[t] = "view"
    /\ Respond(t, view(config, req[t]))
    /\ UNCHANGED <<graph_data, initialized, config, req, served, built, probe>>

Next ==
    \E t \in Threads :
        \/ \E r \in Requests : Receive(t, r)
        \/ LoadGraph(t)
        \/ BuildKdTree(t)
        \/ SetInitialized(t)
        \/ View(t)

Spec == Init /\ [][Next]_vars

(***************************************************************************)
(* The same server on the files File_two_components and File_half_circle   *)
(* and on two files whose construction fails, put the queries of           *)
(* CoreRequests.                                                           *)
(***************************************************************************)

CoreInit ==
    /\ graph_data \in {File_two_components, File_half_circle, File_nan, File_bad_key}
    /\ Idle
    /\ probe = None

CoreSpec ==
    CoreInit /\ [][\E t \in Threads :
                      \/ \E r \in CoreRequests : Receive(t, r)
                      \/ LoadGraph(t)
                      \/ BuildKdTree(t)
                      \/ SetInitialized(t)
                      \/ View(t)]_vars

(***************************************************************************)
(* create_graph applied to every mapping of AdjacencyInputs and to the     *)
(* files.                                                                  *)
(***************************************************************************)

GraphInit ==
    /\ graph_data = Dict(<<>>)
    /\ Idle
    /\ probe \in {Call("create_graph", <<data>>, Absent) :
                     data \in AdjacencyInputs \cup GraphFiles
                              \cup {File_half_circle,
                                    Dict(<< Item(Key_0_0, List(<<Pair(0, 120)>>)),
                                            Item(<<"(", "-", "0", ".", "0", ",", " ",
                                                   "0", ")">>,
                                                 List(<<List(<<Whole(0), NegZero>>),
                                                        Pair(60, 0)>>)) >>)}}

CreateGraph ==
    /\ probe.ret = Absent
    /\ probe' = [probe EXCEPT !.ret = create_graph(probe.args[1])]
    /\ UNCHANGED <<graph_data, initialized, config, pc, req, resp, calls, served, built>>

GraphSpec == GraphInit /\ [][CreateGraph]_vars

(***************************************************************************)
(* generate_kml_file applied to every path of KmlPaths.                    *)
(***************************************************************************)

KmlInit ==
    /\ graph_data = Dict(<<>>)
    /\ Idle
    /\ probe \in {Call("generate_kml_file", <<p>>, Absent) : p \in KmlPaths}

Encode ==
    /\ probe.ret = Absent
    /\ probe' = [probe EXCEPT !.ret = generate_kml_file(probe.args[1])]
    /\ UNCHANGED <<graph_data, initialized, config, pc, req, resp, calls, served, built>>

KmlSpec == KmlInit /\ [][Encode]_vars

(***************************************************************************)
(* Reference notions of the properties: paths, components and weights of   *)
(* a graph, read off its edges alone.                                      *)
(***************************************************************************)

GraphNodes(G) == Range(G.nodes)

Linked(G, u, v) == \E k \in 1..Len(Adj(G, u)) : as_key(Adj(G, u)[k].to) = as_key(v)

EdgeWeight(G, u, v) ==
    Adj(G, u)[CHOOSE k \in 1..Len(Adj(G, u)) : as_key(Adj(G, u)[k].to) = as_key(v)].weight

\* the nodes reachable from the nodes of S
RECURSIVE Component(_, _)
Component(G, S) ==
    IF \A u \in S : \A v \in GraphNodes(G) : Linked(G, u, v) => v \in S
    THEN S
    ELSE Component(G, S \cup {v \in GraphNodes(G) : \E u \in S : Linked(G, u, v)})

\* every simple path that extends p to t
RECURSIVE SimplePathsFrom(_, _, _)
SimplePathsFrom(G, p, t) ==
    IF p[Len(p)] = t THEN {p}
    ELSE UNION { SimplePathsFrom(G, Append(p, v), t) :
                    v \in {w \in GraphNodes(G) : Linked(G, p[Len(p)], w) /\ w \notin Range(p)} }

\* the weights of the edges of p from its i-th node on, added to acc one
\* after the other
RECURSIVE SumFrom(_, _, _, _)
SumFrom(G, p, i, acc) ==
    IF i >= Len(p) THEN acc
    ELSE SumFrom(G, p, i + 1, float_add(acc, EdgeWeight(G, p[i], p[i + 1])))

PathWeight(G, p) == SumFrom(G, p, 1, <<0, 0, 0>>)

IsSimplePath(G, p, s, t) ==
    /\ p # <<>>
    /\ p[1] = s
    /\ p[Len(p)] = t
    /\ Cardinality(Range(p)) = Len(p)
    /\ \A i \in 1..(Len(p) - 1) : Linked(G, p[i], p[i + 1])

CallsOf(t, fn) == {i \in 1..Len(calls[t]) : calls[t][i].fn = fn}

NoPathResponse ==
    ErrorResponse(<<"No path found between the provided points.">>, 404)

SamePointResponse == ErrorResponse(<<"Start and end points cannot be the same">>, 404)

TooCloseResponse ==
    ErrorResponse(
        <<"Start and end points are too close; please provide more distant points">>, 404)

\* C1: every find_shortest_path call between distinct nodes of one connected
\* component returns a simple path of the graph from source to target whose
\* summed edge weight is the least over all simple paths between them.
ShortestPathIsMinimal ==
    \A t \in Threads : \A i \in CallsOf(t, "find_shortest_path") :
        LET s == calls[t][i].args[1]
            e == calls[t][i].args[2]
            r == calls[t][i].ret
        IN  (s # e /\ e \in Component(config.graph, {s}))
            => /\ r.ok
               /\ r.val.t = "list"
               /\ IsSimplePath(config.graph, r.val.v, s, e)
               /\ \A q \in SimplePathsFrom(config.graph, <<s>>, e) :
                     ~float_lt(PathWeight(config.graph, q),
                               PathWeight(config.graph, r.val.v))

\* a path of three nodes was returned where a heavier simple path exists
ShortestPathWitness ==
    \E t \in Threads : \E i \in CallsOf(t, "find_shortest_path") :
        /\ calls[t][i].ret.ok
        /\ calls[t][i].ret.val.t = "list"
        /\ Len(calls[t][i].ret.val.v) >= 3
        /\ \E q \in SimplePathsFrom(config.graph, <<calls[t][i].args[1]>>,
                                    calls[t][i].args[2]) :
              float_lt(PathWeight(config.graph, calls[t][i].ret.val.v),
                       PathWeight(config.graph, q))

\* C2: a find_shortest_path call between nodes of different connected
\* components returns None, it is the last call of the request, and the
\* request is answered with the "No path found" error.
NoPathAcrossComponents ==
    \A t \in Threads : \A i \in CallsOf(t, "find_shortest_path") :
        calls[t][i].args[2] \notin Component(config.graph, {calls[t][i].args[1]})
        => /\ calls[t][i].ret = Ok(None)
           /\ i = Len(calls[t])
           /\ resp[t] = NoPathResponse

NoPathWitness ==
    \E t \in Threads : \E i \in CallsOf(t, "find_shortest_path") :
        /\ calls[t][i].args[2] \notin Component(config.graph, {calls[t][i].args[1]})
        /\ Len(config.graph.nodes) >= 3
        /\ resp[t] = NoPathResponse

\* C3: when construction succeeds, the graph and the k-d tree are each built
\* at most once, and a view function runs only after both are published.
BuiltAtMostOnce ==
    initialize(FALSE, NoConfig, graph_data).ok
    => /\ built.graph <= 1
       /\ built.kd_tree <= 1
       /\ \A t \in Threads :
             pc[t] = "view" => config.graph # Absent /\ config.kd_tree # Absent

\* C4: the node find_closest_point returns is a node of the graph at least as
\* near to the query point, by calculate_distance, as every node of the graph.
ClosestPointIsNearestOnSphere ==
    \A t \in Threads : \A i \in CallsOf(t, "find_closest_point") :
        calls[t][i].ret.ok
        => /\ calls[t][i].ret.val \in GraphNodes(config.graph)
           /\ \A n \in GraphNodes(config.graph) :
                 ~float_lt(calculate_distance(calls[t][i].args[1], n).val,
                           calculate_distance(calls[t][i].args[1], calls[t][i].ret.val).val)

\* a number, or a text that float reads as one
IsNumber(x) == json_float(x).ok

\* p holds "lat" and "lon" and nothing else, both numbers in range
WellFormedPoint(p) ==
    /\ p.t = "dict"
    /\ Len(p.v) = 2
    /\ getitem(p, key_lat).ok /\ getitem(p, key_lon).ok
    /\ IsNumber(getitem(p, key_lat).val)
    /\ ValidLat(json_float(getitem(p, key_lat).val).val)
    /\ IsNumber(getitem(p, key_lon).val)
    /\ ValidLon(json_float(getitem(p, key_lon).val).val)

\* the body holds both points with both fields, all numbers in range
WellFormedQuery(json) ==
    /\ json.t = "dict"
    /\ Len(json.v) = 2
    /\ getitem(json, key_start).ok /\ getitem(json, key_end).ok
    /\ WellFormedPoint(getitem(json, key_start).val)
    /\ WellFormedPoint(getitem(json, key_end).val)

\* the point w of a well-formed query, as floats
RawPoint(json, w) ==
    << json_float(getitem(getitem(json, w).val, key_lat).val).val,
       json_float(getitem(getitem(json, w).val, key_lon).val).val >>

Answered(t) == pc[t] = "done" /\ req[t].method = "POST"

\* C5: a well-formed query with equal raw points is rejected with no call
\* made; with distinct raw points the first two calls snap the start and the
\* end; if both snap to one node the query is rejected with no further call;
\* find_shortest_path is only ever the third call, on the two distinct
\* snapped nodes.
RejectionOrder ==
    \A t \in Threads :
        (Answered(t) /\ WellFormedQuery(req[t].json))
        => LET s  == RawPoint(req[t].json, key_start)
               e  == RawPoint(req[t].json, key_end)
               cs == calls[t]
           IN  /\ s = e => cs = <<>> /\ resp[t] = SamePointResponse
               /\ s # e =>
                     /\ Len(cs) >= 2
                     /\ cs[1].fn = "find_closest_point" /\ cs[1].args = <<s>> /\ cs[1].ret.ok
                     /\ cs[2].fn = "find_closest_point" /\ cs[2].args = <<e>> /\ cs[2].ret.ok
                     /\ cs[1].ret.val = cs[2].ret.val
                           => Len(cs) = 2 /\ resp[t] = TooCloseResponse
                     /\ cs[1].ret.val # cs[2].ret.val
                           => /\ Len(cs) >= 3
                              /\ cs[3].fn = "find_shortest_path"
                              /\ cs[3].args = <<cs[1].ret.val, cs[2].ret.val>>
               /\ \A i \in CallsOf(t, "find_shortest_path") :
                     i = 3 /\ cs[i].args[1] # cs[i].args[2]

\* one request was rejected for equal raw points while another, with distinct
\* raw points, was rejected after both snaps
RejectionOrderWitness ==
    \E t, u \in Threads :
        /\ Answered(t) /\ WellFormedQuery(req[t].json)
        /\ resp[t] = SamePointResponse
        /\ Answered(u) /\ WellFormedQuery(req[u].json)
        /\ RawPoint(req[u].json, key_start) # RawPoint(req[u].json, key_end)
        /\ resp[u] = TooCloseResponse
        /\ Len(calls[u]) = 2

\* C6: a query that is not well formed is answered with a 400 error
\* response, and no call into the core is made for it.
MalformedIsRejected ==
    \A t \in Threads :
        (Answered(t) /\ ~WellFormedQuery(req[t].json))
        => /\ resp[t].status = 400
           /\ DOMAIN resp[t].body = {"error"}
           /\ calls[t] = <<>>

Published == config.graph # Absent /\ config.kd_tree # Absent

SameAnswers ==
    \A t, u \in Threads :
        (pc[t] = "done" /\ pc[u] = "done" /\ req[t] = req[u]) => resp[t] = resp[u]

\* C7: once the graph and the k-d tree are published no step changes them,
\* and two answered requests that are equal have equal answers.
QueriesLeaveConfig == [][Published => (config' = config /\ SameAnswers')]_vars

\* with the graph published, one request was answered with a path and another
\* was rejected, after a third had been served
QueriesLeaveConfigWitness ==
    /\ Published
    /\ served >= 3
    /\ \E t, u \in Threads :
          /\ Answered(t) /\ resp[t].status = 200
          /\ Answered(u) /\ resp[u].status = 404

\* C8: when create_graph raises on the file, nothing is ever published, the
\* flag stays unset, no request gets past the construction, and every answer
\* is the failure of the construction.
FailedConstructionServesNothing ==
    ~create_graph(graph_data).ok
    => /\ config = NoConfig
       /\ ~initialized
       /\ built.graph = 0
       /\ \A t \in Threads :
             /\ pc[t] \in {"idle", "load", "aborted"}
             /\ calls[t] = <<>>
             /\ pc[t] = "aborted" => resp[t] = Unhandled(create_graph(graph_data))

\* on a file with a parsable first item and a bad second one, a second
\* request failed after the first
FailedConstructionWitness ==
    /\ graph_data = File_bad_key
    /\ served >= 2
    /\ \A t \in Threads : pc[t] = "aborted"

\* the coordinates of the keys and of the neighbour lists of a mapping, each
\* as == compares it
Coordinates(data) ==
    {as_key(new_floats(parse_node(data.v[i].key), i).val) : i \in 1..Len(data.v)}
    \cup UNION { {as_key(data.v[i].value.v[j].v) : j \in 1..Len(data.v[i].value.v)} :
                    i \in 1..Len(data.v) }

\* C9: the graph that create_graph returns has one node per distinct
\* coordinate of the keys and neighbour lists of its input, and both ends of
\* every edge are nodes of it.
NodesAreDistinctCoordinates ==
    (probe.ret # Absent /\ probe.ret.ok)
    => /\ Len(probe.ret.val.nodes) = Cardinality(Coordinates(probe.args[1]))
       /\ {as_key(n) : n \in GraphNodes(probe.ret.val)} = Coordinates(probe.args[1])
       /\ Len(probe.ret.val.adj) = Len(probe.ret.val.nodes)
       /\ \A i \in 1..Len(probe.ret.val.adj) : \A k \in 1..Len(probe.ret.val.adj[i]) :
             as_key(probe.ret.val.adj[i][k].to) \in {as_key(n) : n \in GraphNodes(probe.ret.val)}

\* a graph was built from two keys where the coordinate of one key is also a
\* neighbour of the other and some neighbour is listed twice
NodesAreDistinctCoordinatesWitness ==
    /\ probe.ret # Absent
    /\ probe.ret.ok
    /\ probe.args[1] \in AdjacencyInputs
    /\ Len(probe.args[1].v) = 2
    /\ parse_node(probe.args[1].v[2].key).val \in
          {probe.args[1].v[1].value.v[j].v : j \in 1..Len(probe.args[1].v[1].value.v)}
    /\ \E i \in 1..2 :
          /\ Len(probe.args[1].v[i].value.v) = 2
          /\ probe.args[1].v[i].value.v[1] = probe.args[1].v[i].value.v[2]
    /\ Len(probe.ret.val.nodes) = 3

\* every element of the tree e, in document order
RECURSIVE Elements(_)
Elements(e) ==
    LET RECURSIVE below(_)
        below(i) == IF i = 0 THEN <<>> ELSE below(i - 1) \o Elements(e.children[i])
    IN  <<e>> \o below(Len(e.children))

\* the texts of the <coordinates> of the line features of the document
LineCoordinates(doc) ==
    LET es == Elements(doc)
    IN  {es[i].children[1].text : i \in {j \in 1..Len(es) : es[j].tag = "LineString"}}

\* s cut at every character sep
RECURSIVE Fields(_, _, _)
Fields(s, sep, cur) ==
    IF s = <<>> THEN <<cur>>
    ELSE IF Head(s) = sep THEN <<cur>> \o Fields(Tail(s), sep, <<>>)
    ELSE Fields(Tail(s), sep, Append(cur, Head(s)))

\* the coordinate list that a <coordinates> text reads as: tuples parted by
\* blanks, their numbers by commas
Decoded(text) ==
    IF text = <<>> THEN <<>>
    ELSE [i \in 1..Len(Fields(text, " ", <<>>)) |->
            [j \in 1..Len(Fields(Fields(text, " ", <<>>)[i], ",", <<>>)) |->
                float(Fields(Fields(text, " ", <<>>)[i], ",", <<>>)[j]).val]]

\* every emitted (lon, lat) pair swapped back to (lat, lon)
SwapBack(coords) == [i \in 1..Len(coords) |-> <<coords[i][2], coords[i][1]>>]

RoundTrip(c) ==
    /\ c.ret.ok
    /\ Cardinality(LineCoordinates(c.ret.val)) = 1
    /\ \A text \in LineCoordinates(c.ret.val) : SwapBack(Decoded(text)) = c.args[1]

\* C10: for every non-empty path, the document that generate_kml_file
\* returns holds one line feature, and its coordinates, read from the text
\* and swapped back to (lat, lon), are the path.
KmlRoundTripEveryPath == probe.ret # Absent => RoundTrip(probe)

=============================================================================
